---- MODULE Spec2Model ----
(***************************************************************************)
(* Model of the document segmentation core of PDFLLM                       *)
(* (src/src/ingestion/chunker.py): section detection, section splitting,   *)
(* text/table block separation, text chunking, page location and the       *)
(* chunk_pages pass that threads chunk_id and the running offset through   *)
(* them.                                                                   *)
(*                                                                         *)
(* Text is a sequence of one-character strings.  Positions are 0-based     *)
(* offsets as in Python; the character at offset p of s is s[p + 1].       *)
(* The CJK characters of the heading patterns are written with ASCII       *)
(* stand-ins: "D" is U+7B2C (di), "Y" is U+4E00 (the numeral one), "J" is  *)
(* U+8282 (jie).  CodePoint gives every character the code point of the    *)
(* character it stands for, which is what Python's tuple sort compares.    *)
(***************************************************************************)
EXTENDS Integers, Sequences, FiniteSets, Bags, TLC

(***************************************************************************)
(* Characters and Python string primitives                                 *)
(***************************************************************************)
NL == "\n"
SP == " "
HASH == "#"
BAR == "|"
DOT == "."
DI == "D"
YI == "Y"
JIE == "J"

\* \s and str.strip(), restricted to the characters of the model
Whitespace == {SP, NL}

\* ord(c) of the character c stands for (sorted() compares titles by it)
CodePoint(c) ==
    CASE c = NL -> 10
      [] c = SP -> 32
      [] c = HASH -> 35
      [] c = DOT -> 46
      [] c = "a" -> 97
      [] c = "b" -> 98
      [] c = BAR -> 124
      [] c = YI -> 19968
      [] c = DI -> 31532
      [] c = JIE -> 33410

MinOf(S) == CHOOSE x \in S : \A y \in S : x <= y
MaxOf(S) == CHOOSE x \in S : \A y \in S : x >= y

\* variant of Strip: only spaces are stripped, as by s.strip(" ")
StripSpaces(s) ==
    LET keep == {i \in 1..Len(s) : s[i] # SP}
    IN  IF keep = {} THEN <<>> ELSE SubSeq(s, MinOf(keep), MaxOf(keep))

\* str.strip()
Strip(s) ==
    LET keep == {i \in 1..Len(s) : s[i] \notin Whitespace}
    IN  IF keep = {} THEN <<>> ELSE SubSeq(s, MinOf(keep), MaxOf(keep))

\* str.lstrip("#")
LStripHash(s) ==
    LET keep == {i \in 1..Len(s) : s[i] # HASH}
    IN  IF keep = {} THEN <<>> ELSE SubSeq(s, MinOf(keep), Len(s))

\* Python index normalisation of a slice bound k for a string of length n
SliceBound(k, n) ==
    IF k < 0 THEN (IF k + n < 0 THEN 0 ELSE k + n)
    ELSE (IF k > n THEN n ELSE k)

\* s[i:j]
PySlice(s, i, j) ==
    LET a == SliceBound(i, Len(s))
        b == SliceBound(j, Len(s))
    IN  IF a >= b THEN <<>> ELSE SubSeq(s, a + 1, b)

\* s.split("\n")
RECURSIVE SplitLines(_)
SplitLines(s) ==
    LET nl == {i \in 1..Len(s) : s[i] = NL}
    IN  IF nl = {} THEN <<s>>
        ELSE <<SubSeq(s, 1, MinOf(nl) - 1)>>
                 \o SplitLines(SubSeq(s, MinOf(nl) + 1, Len(s)))

\* sep.join(parts)
RECURSIVE Join(_, _)
Join(parts, sep) ==
    IF parts = <<>> THEN <<>>
    ELSE IF Len(parts) = 1 THEN parts[1]
    ELSE parts[1] \o sep \o Join(Tail(parts), sep)

\* the parts written one after the other
RECURSIVE Flatten(_)
Flatten(ss) == IF ss = <<>> THEN <<>> ELSE Head(ss) \o Flatten(Tail(ss))

\* variant of IsTableLine: a row must also close with "|", as TABLE_LINE_RE asks
IsClosedTableLine(line) ==
    LET t == Strip(line) IN Len(t) >= 2 /\ t[1] = BAR /\ t[Len(t)] = BAR

\* line.strip().startswith("|")
IsTableLine(line) == LET t == Strip(line) IN t # <<>> /\ t[1] = BAR

\* a < b for str (lexicographic by code point, a proper prefix is smaller)
RECURSIVE StrLess(_, _)
StrLess(a, b) ==
    IF b = <<>> THEN FALSE
    ELSE IF a = <<>> THEN TRUE
    ELSE IF a[1] # b[1] THEN CodePoint(a[1]) < CodePoint(b[1])
    ELSE StrLess(Tail(a), Tail(b))

(***************************************************************************)
(* The regular expressions of the module, as a backtracking matcher.  A    *)
(* pattern is a sequence of items: the anchors ^ and $ (re.MULTILINE) and  *)
(* greedy repetitions class{lo,hi}; hi = -1 is unbounded.                  *)
(***************************************************************************)
Bol == [kind |-> "bol", set |-> {}, neg |-> FALSE, lo |-> 0, hi |-> 0]
Eol == [kind |-> "eol", set |-> {}, neg |-> FALSE, lo |-> 0, hi |-> 0]
Rep(set, lo, hi) == [kind |-> "rep", set |-> set, neg |-> FALSE, lo |-> lo, hi |-> hi]
\* . (anything but a newline)
AnyChar(lo, hi) == [kind |-> "rep", set |-> {NL}, neg |-> TRUE, lo |-> lo, hi |-> hi]

InClass(c, item) == (c \in item.set) # item.neg

\* the longest run of item's class at offset pos, at most item.hi long
RunLen(text, pos, item) ==
    LET room == Len(text) - pos
        cap == IF item.hi < 0 \/ item.hi > room THEN room ELSE item.hi
        bad == {k \in 1..cap : ~InClass(text[pos + k], item)}
    IN  IF bad = {} THEN cap ELSE MinOf(bad) - 1

\* End offset of the match of items[k..] at offset pos, -1 if there is none.
\* A repetition first takes all it can and gives back one character at a time.
RECURSIVE MatchFrom(_, _, _, _), TryCount(_, _, _, _, _)
MatchFrom(text, items, k, pos) ==
    IF k > Len(items) THEN pos
    ELSE IF items[k].kind = "bol"
    THEN IF pos = 0 \/ text[pos] = NL
         THEN MatchFrom(text, items, k + 1, pos) ELSE -1
    ELSE IF items[k].kind = "eol"
    THEN IF pos = Len(text) \/ text[pos + 1] = NL
         THEN MatchFrom(text, items, k + 1, pos) ELSE -1
    ELSE LET n == RunLen(text, pos, items[k])
         IN  IF n < items[k].lo THEN -1 ELSE TryCount(text, items, k, pos, n)

TryCount(text, items, k, pos, c) ==
    LET r == MatchFrom(text, items, k + 1, pos + c)
    IN  IF r >= 0 THEN r
        ELSE IF c > items[k].lo THEN TryCount(text, items, k, pos, c - 1)
        ELSE -1

\* pattern.finditer(text): the non-overlapping matches, leftmost first.
\* (No pattern of the module matches the empty string.)
RECURSIVE FindIterFrom(_, _, _)
FindIterFrom(text, items, from) ==
    IF from > Len(text) THEN <<>>
    ELSE LET e == MatchFrom(text, items, 1, from)
         IN  IF e > from
             THEN <<[start |-> from, end |-> e]>> \o FindIterFrom(text, items, e)
             ELSE FindIterFrom(text, items, from + 1)

FindIter(text, items) == FindIterFrom(text, items, 0)

(***************************************************************************)
(* Section Detector and Section Splitter                                   *)
(***************************************************************************)
TITLE_MIN == 2
TITLE_MAX == 50
NEAR == 5

\* [one..ten] of the second pattern; the first pattern also takes digits
CnNumerals == {YI}
Digits == {"0", "1", "2", "3", "4", "5", "6", "7", "8", "9"}

SECTION_PATTERNS ==
    << \* ^#{0,3}\s*D[numerals, hundred, \d]+[J, zhang]\s+.+
       << Bol, Rep({HASH}, 0, 3), Rep(Whitespace, 0, -1), Rep({DI}, 1, 1),
          Rep(CnNumerals \cup Digits, 1, -1), Rep({JIE}, 1, 1),
          Rep(Whitespace, 1, -1), AnyChar(1, -1) >>,
       \* ^#{0,3}\s*[numerals]+[list comma, full stop, .]\s*.+
       << Bol, Rep({HASH}, 0, 3), Rep(Whitespace, 0, -1),
          Rep(CnNumerals, 1, -1), Rep({DOT}, 1, 1),
          Rep(Whitespace, 0, -1), AnyChar(1, -1) >>,
       \* ^#{1,3}\s+.{2,30}\s*$
       << Bol, Rep({HASH}, 1, 3), Rep(Whitespace, 1, -1), AnyChar(2, 30),
          Rep(Whitespace, 0, -1), Eol >> >>

\* m.group().strip().lstrip("#").strip()
CleanTitle(group) == Strip(LStripHash(Strip(group)))

\* the hits of one pattern: every match whose cleaned title has 2..50 characters
PatternHits(text, items) ==
    LET ms == FindIter(text, items)
        hit(m) == [pos |-> m.start, title |-> CleanTitle(SubSeq(text, m.start + 1, m.end))]
    IN  SelectSeq([i \in 1..Len(ms) |-> hit(ms[i])],
                  LAMBDA h : TITLE_MIN <= Len(h.title) /\ Len(h.title) <= TITLE_MAX)

\* (pos, title) tuples compare by pos, then by title
HitLess(g, h) == g.pos < h.pos \/ (g.pos = h.pos /\ StrLess(g.title, h.title))

\* sorted(hits); equal tuples stay, as in a list
RECURSIVE SortHits(_)
SortHits(hits) ==
    IF hits = <<>> THEN <<>>
    ELSE LET i == CHOOSE i \in 1..Len(hits) :
                      \A j \in 1..Len(hits) : ~HitLess(hits[j], hits[i])
         IN  <<hits[i]>> \o SortHits(SubSeq(hits, 1, i - 1) \o SubSeq(hits, i + 1, Len(hits)))

\* variant of Dedup: only a hit at a kept position itself is skipped
RECURSIVE DedupSamePosition(_, _)
DedupSamePosition(sorted, seen_pos) ==
    IF sorted = <<>> THEN <<>>
    ELSE LET h == sorted[1]
         IN  IF h.pos \in seen_pos
             THEN DedupSamePosition(Tail(sorted), seen_pos)
             ELSE <<h>> \o DedupSamePosition(Tail(sorted), seen_pos \cup {h.pos})

\* the de-duplication loop: a hit within 5 characters of a kept position is skipped
RECURSIVE Dedup(_, _)
Dedup(sorted, seen_pos) ==
    IF sorted = <<>> THEN <<>>
    ELSE LET h == sorted[1]
             d(p) == IF h.pos >= p THEN h.pos - p ELSE p - h.pos
         IN  IF \E p \in seen_pos : d(p) < NEAR
             THEN Dedup(Tail(sorted), seen_pos)
             ELSE <<h>> \o Dedup(Tail(sorted), seen_pos \cup {h.pos})

\* _find_sections(text)
FindSections(text) ==
    Dedup(SortHits(PatternHits(text, SECTION_PATTERNS[1])
                     \o PatternHits(text, SECTION_PATTERNS[2])
                     \o PatternHits(text, SECTION_PATTERNS[3])), {})

\* variant of SplitBySections: the text before the first heading is left out
SplitBySectionsNoPreamble(full_text) ==
    LET sections == FindSections(full_text)
        n == Len(sections)
        end(i) == IF i + 1 <= n THEN sections[i + 1].pos ELSE Len(full_text)
        span(i) == [title |-> sections[i].title,
                    text |-> Strip(SubSeq(full_text, sections[i].pos + 1, end(i))),
                    start |-> sections[i].pos]
    IN  IF n = 0 THEN <<[title |-> <<>>, text |-> full_text, start |-> 0]>>
        ELSE SelectSeq([i \in 1..n |-> span(i)], LAMBDA s : s.text # <<>>)

\* variant of SplitBySections: every span runs to the end of the document
SplitBySectionsToEnd(full_text) ==
    LET sections == FindSections(full_text)
        n == Len(sections)
        pre_text == Strip(SubSeq(full_text, 1, sections[1].pos))
        pre == IF sections[1].pos > 0 /\ pre_text # <<>>
               THEN <<[title |-> <<>>, text |-> pre_text, start |-> 0]>>
               ELSE <<>>
        span(i) == [title |-> sections[i].title,
                    text |-> Strip(SubSeq(full_text, sections[i].pos + 1, Len(full_text))),
                    start |-> sections[i].pos]
    IN  IF n = 0 THEN <<[title |-> <<>>, text |-> full_text, start |-> 0]>>
        ELSE pre \o SelectSeq([i \in 1..n |-> span(i)], LAMBDA s : s.text # <<>>)

\* variant of SplitBySections: a span is given the title of the heading before its own
SplitBySectionsPrevTitle(full_text) ==
    LET sections == FindSections(full_text)
        n == Len(sections)
        pre_text == Strip(SubSeq(full_text, 1, sections[1].pos))
        pre == IF sections[1].pos > 0 /\ pre_text # <<>>
               THEN <<[title |-> <<>>, text |-> pre_text, start |-> 0]>>
               ELSE <<>>
        end(i) == IF i + 1 <= n THEN sections[i + 1].pos ELSE Len(full_text)
        span(i) == [title |-> sections[IF i > 1 THEN i - 1 ELSE 1].title,
                    text |-> Strip(SubSeq(full_text, sections[i].pos + 1, end(i))),
                    start |-> sections[i].pos]
    IN  IF n = 0 THEN <<[title |-> <<>>, text |-> full_text, start |-> 0]>>
        ELSE pre \o SelectSeq([i \in 1..n |-> span(i)], LAMBDA s : s.text # <<>>)

\* _split_by_sections(full_text)
SplitBySections(full_text) ==
    LET sections == FindSections(full_text)
        n == Len(sections)
        pre_text == Strip(SubSeq(full_text, 1, sections[1].pos))
        pre == IF sections[1].pos > 0 /\ pre_text # <<>>
               THEN <<[title |-> <<>>, text |-> pre_text, start |-> 0]>>
               ELSE <<>>
        end(i) == IF i + 1 <= n THEN sections[i + 1].pos ELSE Len(full_text)
        span(i) == [title |-> sections[i].title,
                    text |-> Strip(SubSeq(full_text, sections[i].pos + 1, end(i))),
                    start |-> sections[i].pos]
    IN  IF n = 0 THEN <<[title |-> <<>>, text |-> full_text, start |-> 0]>>
        ELSE pre \o SelectSeq([i \in 1..n |-> span(i)], LAMBDA s : s.text # <<>>)

(***************************************************************************)
(* Block Separator, paragraph split and Page Locator                       *)
(***************************************************************************)
\* the flush of the pending lines: "\n".join(current_lines).strip(), kept if not empty
Flush(blocks, current_type, current_lines) ==
    LET content == Strip(Join(current_lines, <<NL>>))
    IN  IF current_lines # <<>> /\ content # <<>>
        THEN Append(blocks, [type |-> current_type, content |-> content])
        ELSE blocks

\* the line loop of _split_text_and_tables and its final flush
RECURSIVE BlockLoop(_, _, _, _)
BlockLoop(lines, blocks, current_type, current_lines) ==
    IF lines = <<>> THEN Flush(blocks, current_type, current_lines)
    ELSE LET line == Head(lines)
             is_table_line == IsTableLine(line)
         IN  IF is_table_line /\ current_type = "text"
             THEN BlockLoop(Tail(lines), Flush(blocks, "text", current_lines),
                            "table", <<line>>)
             ELSE IF ~is_table_line /\ current_type = "table"
             THEN BlockLoop(Tail(lines), Flush(blocks, "table", current_lines),
                            "text", <<line>>)
             ELSE BlockLoop(Tail(lines), blocks, current_type,
                            Append(current_lines, line))

\* _split_text_and_tables(section_text)
SplitTextAndTables(section_text) ==
    BlockLoop(SplitLines(section_text), <<>>, "text", <<>>)

\* \n\s*\n
PARA_SEP == << Rep({NL}, 1, 1), Rep(Whitespace, 0, -1), Rep({NL}, 1, 1) >>

\* re.split(r"\n\s*\n", text)
SplitParagraphs(text) ==
    LET ms == FindIter(text, PARA_SEP)
        from(i) == IF i = 1 THEN 0 ELSE ms[i - 1].end
        to(i) == IF i > Len(ms) THEN Len(text) ELSE ms[i].start
    IN  [i \in 1..(Len(ms) + 1) |-> SubSeq(text, from(i) + 1, to(i))]

\* variant of GetPageForPosition: a triple is taken up to and including its end
GetPageForPositionInclusive(position, page_boundaries) ==
    LET hit == {i \in 1..Len(page_boundaries) : position <= page_boundaries[i].end}
    IN  IF hit # {} THEN page_boundaries[MinOf(hit)].page_num
        ELSE IF page_boundaries # <<>>
        THEN page_boundaries[Len(page_boundaries)].page_num
        ELSE 1

\* _get_page_for_position(position, page_boundaries)
GetPageForPosition(position, page_boundaries) ==
    LET hit == {i \in 1..Len(page_boundaries) : position < page_boundaries[i].end}
    IN  IF hit # {} THEN page_boundaries[MinOf(hit)].page_num
        ELSE IF page_boundaries # <<>>
        THEN page_boundaries[Len(page_boundaries)].page_num
        ELSE 1

(***************************************************************************)
(* Table Classifier.  Its text is made of CJK characters, each written as  *)
(* an ASCII name (its pinyin, with a letter added where two characters     *)
(* share one): "zi" "chan" "fu" "zhai" "biao" is the balance sheet         *)
(* U+8D44 U+4EA7 U+8D1F U+503A U+8868.  "fwcomma" and "fwstop" are the     *)
(* full-width comma U+FF0C and full stop U+3002.  Scores are counted in    *)
(* hundredths: 0.15 is 15, 0.3 is 30, 1.0 is 100 (the sums and comparisons *)
(* of classify_table give the same outcome in binary floating point for    *)
(* every number of keywords and every pair of bonuses).                    *)
(***************************************************************************)
FINANCIAL_KEYWORDS ==
    << <<"zi", "chan", "fu", "zhai", "biao">>, <<"li", "run", "biao">>,
       <<"xian", "jin", "liu", "liang", "biao">>, <<"suo", "you", "zhe", "quan", "yi">>,
       <<"he", "bing", "zi", "chan">>, <<"mu", "gong", "si", "zi", "chan">>,
       <<"cai", "wu", "zhuang", "kuang">>, <<"jing", "ying", "cheng", "guo">>,
       <<"zi", "chan", "zong", "e">>, <<"fu", "zhai", "zong", "e">>,
       <<"ying", "ye", "shou", "ru">>, <<"jingB", "li", "run">>,
       <<"xian", "jin", "ji", "xian", "jin", "deng", "jia", "wuB">>,
       <<"yingB", "shou", "zhang", "kuan">>, <<"cun", "huo">> >>

FUNDRAISING_KEYWORDS ==
    << <<"muB", "jiB", "zi", "jin">>, <<"zi", "jin", "yong", "tu">>, <<"muB", "zi">>,
       <<"tou", "xiang">>, <<"muB", "tou", "xiangB", "muC">>,
       <<"muB", "jiB", "pei", "tao", "zi", "jin">>,
       <<"fa", "xing", "gu", "fen">>, <<"ren", "gou">>, <<"pei", "tao", "rong", "zi">>,
       <<"zi", "jin", "shi", "yong">>, <<"zi", "jin", "tou", "xiang">>,
       <<"muB", "jiB", "shuo", "ming">> >>

\* the column names of line 143: item, amount, this period, last period, year start, year end
STRUCTURE_KEYWORDS ==
    << <<"xiangB", "muC">>, <<"jin", "e">>, <<"ben", "qi">>, <<"shang", "qi">>,
       <<"nian", "chu">>, <<"nian", "mo">> >>

\* the words the two scoring rules and the title rules look for
BalanceSheet == <<"zi", "chan", "fu", "zhai", "biao">>
TotalAssets == <<"zi", "chan", "zong", "jiC">>
IncomeStatement == <<"li", "run", "biao">>
Revenue == <<"ying", "ye", "shou", "ru">>
NetProfit == <<"jingB", "li", "run">>
CashFlowStatement == <<"xian", "jin", "liu", "liang", "biao">>
CashEquivalents == <<"xian", "jin", "ji", "xian", "jin", "deng", "jia", "wuB">>
OwnersEquity == <<"suo", "you", "zhe", "quan", "yi">>
RaisedFunds == <<"muB", "jiB", "zi", "jin">>
Usage == <<"shi", "yong">>
Source == <<"lai", "yuan">>
Subscription == <<"ren", "gou">>
MatchingFinance == <<"pei", "tao", "rong", "zi">>
ShareIssue == <<"fa", "xing", "gu", "fen">>
Consolidated == <<"he", "bing">>
ParentCompany == <<"mu", "gong", "si">>
EquityChangeStatement == <<"suo", "you", "zhe", "quan", "yi", "bian", "dong", "biao">>
FinancialStatement == <<"cai", "wu", "bao", "biao">>
RaisedFundsRelated == <<"muB", "jiB", "zi", "jin", "xiangC", "guan">>

KEYWORD_WEIGHT_FINANCIAL == 15
KEYWORD_WEIGHT_FUNDRAISING == 20
BONUS_MAJOR == 40
BONUS_MINOR == 30
BONUS_STRUCTURE == 20
THRESHOLD == 30
SCORE_MAX == 100
ROWS_READ == 5
FINANCIAL_TITLE_MIN == 5
FUNDRAISING_TITLE_MIN == 3

\* kw in text
Contains(text, kw) ==
    \E i \in 0..(Len(text) - Len(kw)) : SubSeq(text, i + 1, i + Len(kw)) = kw

\* df.empty: no column or no row
IsEmpty(df) == df.columns = <<>> \/ df.rows = <<>>

\* variant of ExtractTableText: the values of every row are read
ExtractTableTextAllRows(df) ==
    IF IsEmpty(df) THEN <<>>
    ELSE Join(df.columns \o Flatten(df.rows), <<SP>>)

\* _extract_table_text(df): the column names and the values of the first rows
ExtractTableText(df) ==
    LET n == IF Len(df.rows) < ROWS_READ THEN Len(df.rows) ELSE ROWS_READ
    IN  IF IsEmpty(df) THEN <<>>
        ELSE Join(df.columns \o Flatten(SubSeq(df.rows, 1, n)), <<SP>>)

\* f"{context_text} {table_text}"
CombinedText(df, context) == context \o <<SP>> \o ExtractTableText(df)

\* sum(1 for kw in keywords if kw in text)
KeywordMatches(keywords, text) ==
    Cardinality({i \in 1..Len(keywords) : Contains(text, keywords[i])})

\* variant of Clamp: the score is returned as it was summed
Unclamped(score) == score

\* min(score, 1.0)
Clamp(score) == IF score < SCORE_MAX THEN score ELSE SCORE_MAX

\* any(kw in column_text for kw in [...]) of a grid that is not empty
HasStructure(df) ==
    /\ ~IsEmpty(df)
    /\ \E i \in 1..Len(STRUCTURE_KEYWORDS) :
          Contains(Join(df.columns, <<SP>>), STRUCTURE_KEYWORDS[i])

\* variant of FinancialCategory: the income-statement markers are asked for first
FinancialCategoryIncomeFirst(text) ==
    IF Contains(text, IncomeStatement) \/ Contains(text, Revenue)
       \/ Contains(text, NetProfit)
    THEN [category |-> "income_statement", bonus |-> BONUS_MAJOR]
    ELSE IF Contains(text, BalanceSheet) \/ Contains(text, TotalAssets)
    THEN [category |-> "balance_sheet", bonus |-> BONUS_MAJOR]
    ELSE IF Contains(text, CashFlowStatement) \/ Contains(text, CashEquivalents)
    THEN [category |-> "cash_flow_statement", bonus |-> BONUS_MAJOR]
    ELSE IF Contains(text, OwnersEquity)
    THEN [category |-> "equity_statement", bonus |-> BONUS_MINOR]
    ELSE [category |-> "unknown", bonus |-> 0]

\* lines 126-137: the first group of markers found gives the category and its bonus
FinancialCategory(text) ==
    IF Contains(text, BalanceSheet) \/ Contains(text, TotalAssets)
    THEN [category |-> "balance_sheet", bonus |-> BONUS_MAJOR]
    ELSE IF Contains(text, IncomeStatement) \/ Contains(text, Revenue)
            \/ Contains(text, NetProfit)
    THEN [category |-> "income_statement", bonus |-> BONUS_MAJOR]
    ELSE IF Contains(text, CashFlowStatement) \/ Contains(text, CashEquivalents)
    THEN [category |-> "cash_flow_statement", bonus |-> BONUS_MAJOR]
    ELSE IF Contains(text, OwnersEquity)
    THEN [category |-> "equity_statement", bonus |-> BONUS_MINOR]
    ELSE [category |-> "unknown", bonus |-> 0]

\* _is_financial_report(df, text)
IsFinancialReport(df, text) ==
    LET found == FinancialCategory(text)
        score == KeywordMatches(FINANCIAL_KEYWORDS, text) * KEYWORD_WEIGHT_FINANCIAL
                     + found.bonus
                     + (IF HasStructure(df) THEN BONUS_STRUCTURE ELSE 0)
    IN  [flag |-> score > THRESHOLD, score |-> Clamp(score), category |-> found.category]

\* lines 166-174
FundraisingCategory(text) ==
    IF Contains(text, RaisedFunds) /\ Contains(text, Usage)
    THEN [category |-> "usage", bonus |-> BONUS_MAJOR]
    ELSE IF Contains(text, RaisedFunds)
            /\ (Contains(text, Source) \/ Contains(text, Subscription))
    THEN [category |-> "source", bonus |-> BONUS_MAJOR]
    ELSE IF Contains(text, MatchingFinance) \/ Contains(text, ShareIssue)
    THEN [category |-> "issuance", bonus |-> BONUS_MINOR]
    ELSE [category |-> "unknown", bonus |-> 0]

\* _is_fundraising_table(df, text)
IsFundraisingTable(df, text) ==
    LET found == FundraisingCategory(text)
        score == KeywordMatches(FUNDRAISING_KEYWORDS, text) * KEYWORD_WEIGHT_FUNDRAISING
                     + found.bonus
    IN  [flag |-> score > THRESHOLD, score |-> Clamp(score), category |-> found.category]

\* the items that match the word w
Lit(w) == [i \in 1..Len(w) |-> Rep({w[i]}, 1, 1)]

\* [^,.\n]{lo,hi} with the full-width comma and full stop
NotStop(lo, hi) ==
    [kind |-> "rep", set |-> {"fwcomma", "fwstop", NL}, neg |-> TRUE, lo |-> lo, hi |-> hi]

NoMatch == [start |-> -1, end |-> -1]

\* re.search of a pattern given as its alternatives in the order the matcher tries them
RECURSIVE SearchFrom(_, _, _)
SearchFrom(text, alts, from) ==
    IF from > Len(text) THEN NoMatch
    ELSE LET ends == [i \in 1..Len(alts) |-> MatchFrom(text, alts[i], 1, from)]
             ok == {i \in 1..Len(alts) : ends[i] >= 0}
         IN  IF ok # {}
             THEN [start |-> from, end |-> ends[MinOf(ok)]]
             ELSE SearchFrom(text, alts, from + 1)

Search(text, alts) == SearchFrom(text, alts, 0)

\* re.sub(r"\s+", "", match.group(0).strip())
CleanMatch(text, m) ==
    SelectSeq(Strip(SubSeq(text, m.start + 1, m.end)), LAMBDA c : c \notin Whitespace)

\* category_names.get(category, ...)
CategoryName(category) ==
    CASE category = "balance_sheet" -> BalanceSheet
      [] category = "income_statement" -> IncomeStatement
      [] category = "cash_flow_statement" -> CashFlowStatement
      [] category = "equity_statement" -> EquityChangeStatement
      [] OTHER -> FinancialStatement

\* the first title of more than least characters among the matches, else fallback
RECURSIVE FirstTitle(_, _, _, _)
FirstTitle(text, patterns, least, fallback) ==
    IF patterns = <<>> THEN fallback
    ELSE LET m == Search(text, Head(patterns))
             title == CleanMatch(text, m)
         IN  IF m.start >= 0 /\ Len(title) > least
             THEN title
             ELSE FirstTitle(text, Tail(patterns), least, fallback)

\* _extract_financial_title(text, category)
ExtractFinancialTitle(text, category) ==
    LET base_title == CategoryName(category)
        around == <<NotStop(0, 20)>> \o Lit(base_title) \o <<NotStop(0, 30)>>
    IN  FirstTitle(text,
                   << <<Lit(Consolidated) \o around, Lit(ParentCompany) \o around, around>>,
                      <<around>> >>,
                   FINANCIAL_TITLE_MIN, base_title)

\* _extract_fundraising_title(text)
ExtractFundraisingTitle(text) ==
    FirstTitle(text,
               << <<Lit(RaisedFunds) \o <<NotStop(0, 30)>>>>,
                  <<<<NotStop(0, 20)>> \o Lit(RaisedFunds) \o <<NotStop(0, 20)>>>> >>,
               FUNDRAISING_TITLE_MIN, RaisedFundsRelated)

\* variant of Decide: the financial rule wins with any score above the other one
DecideNoThreshold(text, fin, fund) ==
    IF fin.score > fund.score
    THEN [type |-> "financial_report", confidence |-> fin.score,
          category |-> fin.category,
          suggested_title |-> ExtractFinancialTitle(text, fin.category)]
    ELSE IF fund.score > THRESHOLD
    THEN [type |-> "fundraising", confidence |-> fund.score,
          category |-> fund.category,
          suggested_title |-> ExtractFundraisingTitle(text)]
    ELSE [type |-> "other", confidence |-> 0, category |-> "unknown",
          suggested_title |-> <<>>]

\* variant of Decide: the financial rule also wins a tie
DecideTieFinancial(text, fin, fund) ==
    IF fin.score >= fund.score /\ fin.score > THRESHOLD
    THEN [type |-> "financial_report", confidence |-> fin.score,
          category |-> fin.category,
          suggested_title |-> ExtractFinancialTitle(text, fin.category)]
    ELSE IF fund.score > THRESHOLD
    THEN [type |-> "fundraising", confidence |-> fund.score,
          category |-> fund.category,
          suggested_title |-> ExtractFundraisingTitle(text)]
    ELSE [type |-> "other", confidence |-> 0, category |-> "unknown",
          suggested_title |-> <<>>]

\* lines 69-89: the type, confidence, category and title for the two scores
Decide(text, fin, fund) ==
    IF fin.score > fund.score /\ fin.score > THRESHOLD
    THEN [type |-> "financial_report", confidence |-> fin.score,
          category |-> fin.category,
          suggested_title |-> ExtractFinancialTitle(text, fin.category)]
    ELSE IF fund.score > THRESHOLD
    THEN [type |-> "fundraising", confidence |-> fund.score,
          category |-> fund.category,
          suggested_title |-> ExtractFundraisingTitle(text)]
    ELSE [type |-> "other", confidence |-> 0, category |-> "unknown",
          suggested_title |-> <<>>]

(***************************************************************************)
(* Context Title Extractor.  A chunk is read by its page and its text; a   *)
(* missing result (None) is <<>>, a title t is <<t>>.                      *)
(***************************************************************************)
TITLE_LINE_MIN == 5
TITLE_LINE_MAX == 40

\* [\d\s.,%\-]
NumberChars == Digits \cup Whitespace \cup {DOT, ",", "%", "-"}

\* re.match(r'^[\d\s.,%\-]+$', line)
AllNumbers(line) == line # <<>> /\ \A i \in 1..Len(line) : line[i] \in NumberChars

\* any(kw in line for kw in FINANCIAL_KEYWORDS + FUNDRAISING_KEYWORDS)
HasKeyword(line) ==
    LET keywords == FINANCIAL_KEYWORDS \o FUNDRAISING_KEYWORDS
    IN  \E i \in 1..Len(keywords) : Contains(line, keywords[i])

\* lines 246-249: the texts of the chunks on the table's page or the page before
RelevantTexts(chunks, table_page) ==
    LET near == SelectSeq(chunks, LAMBDA c : c.page \in {table_page - 1, table_page})
    IN  [i \in 1..Len(near) |-> near[i].text]

\* lines 255-256: the stripped lines of the joined texts that are not blank
TitleLines(texts) ==
    LET lines == SplitLines(Join(texts, <<NL>>))
    IN  SelectSeq([i \in 1..Len(lines) |-> Strip(lines[i])], LAMBDA l : l # <<>>)

\* lines 259-270: the lines of fitting length with a keyword that are not numbers only
TitleCandidates(lines) ==
    SelectSeq(lines, LAMBDA l : /\ TITLE_LINE_MIN <= Len(l) /\ Len(l) <= TITLE_LINE_MAX
                                /\ HasKeyword(l)
                                /\ ~AllNumbers(l))

\* variant of ExtractTitleFromContext: the first candidate is returned
ExtractTitleFromContextFirst(chunks, page, index) ==
    LET relevant_texts == RelevantTexts(chunks, page)
        title_candidates == TitleCandidates(TitleLines(relevant_texts))
    IN  IF relevant_texts = <<>> THEN <<>>
        ELSE IF title_candidates # <<>> THEN <<title_candidates[1]>>
        ELSE <<>>

\* extract_title_from_context(text_chunks, table_page, table_index)
ExtractTitleFromContext(chunks, page, index) ==
    LET relevant_texts == RelevantTexts(chunks, page)
        title_candidates == TitleCandidates(TitleLines(relevant_texts))
    IN  IF relevant_texts = <<>> THEN <<>>
        ELSE IF title_candidates # <<>> THEN <<title_candidates[Len(title_candidates)]>>
        ELSE <<>>

(***************************************************************************)
(* Inputs of classify_table: a grid (column names and rows of cell values) *)
(* and a context text                                                      *)
(***************************************************************************)
MaxContextWords == 2
MaxCols == 1
MaxRows == 1

\* a neutral word that ends with a full-width comma, and words of the two vocabularies
ContextWords ==
    { <<"x", "fwcomma">>, Consolidated \o BalanceSheet, IncomeStatement, CashFlowStatement,
      OwnersEquity, RaisedFunds \o <<"tou", "xiang">> }
ColumnWords == { <<"xiangB", "muC">>, Subscription }
CellWords == { TotalAssets, Usage, ShareIssue }

\* the context texts: at most MaxContextWords words written one after the other
Contexts == UNION {{Flatten(ws) : ws \in [1..n -> ContextWords]} : n \in 0..MaxContextWords}

\* the grids of at most MaxCols columns and MaxRows rows; the cells of a row hold one word
Grids ==
    UNION {{[columns |-> c, rows |-> [i \in 1..n |-> [j \in 1..k |-> w[i]]]] :
                c \in [1..k -> ColumnWords], w \in [1..n -> CellWords]} :
           k \in 0..MaxCols, n \in 0..MaxRows}

\* grids with one row more than _extract_table_text reads: one column, one word in
\* the rows read and a word in the row after them
TallGrids ==
    {[columns |-> <<c>>, rows |-> [i \in 1..(ROWS_READ + 1) |->
                                      IF i <= ROWS_READ THEN <<w>> ELSE <<v>>]] :
         c \in ColumnWords, w \in CellWords, v \in CellWords}

(***************************************************************************)
(* Inputs of chunk_pages: a page list, chunk_size and chunk_overlap.       *)
(* An omitted (None) argument is <<>>, a passed integer n is <<n>>.        *)
(***************************************************************************)
MaxPages == 2
MaxLines == 2
MaxRep == 4
MaxChunkSize == 3
MaxOverlap == 1
MaxStuck == 3

DEFAULT_CHUNK_SIZE == 512
DEFAULT_CHUNK_OVERLAP == 64
DocId == "doc"

\* the lines page texts are made of: blank, prose, table rows, one heading per pattern
LineKinds ==
    { <<>>, <<SP>>, <<"a">>, <<"a", SP, SP, "b">>, <<BAR>>,
      <<YI, DOT, "b">>, <<HASH, SP, "a", "b">>, <<DI, YI, JIE, SP, "a">> }

\* the page texts of exactly n lines
PageTexts(n) == {Join(ls, <<NL>>) : ls \in [1..n -> LineKinds]}

\* the lists of k page texts with at most budget lines in all, each page one line or more
RECURSIVE TextLists(_, _)
TextLists(k, budget) ==
    IF k = 0 THEN {<<>>}
    ELSE UNION {{<<t>> \o d : t \in PageTexts(n), d \in TextLists(k - 1, budget - n)} :
                n \in 1..(budget - (k - 1))}

\* n repetitions of unit
RECURSIVE Repeat(_, _)
Repeat(unit, n) == IF n = 0 THEN <<>> ELSE unit \o Repeat(unit, n - 1)

\* a first page of alternating prose and table rows, then at most one more line,
\* and possibly a second page
AlternatingLists ==
    {<<Join(Repeat(<<<<"a">>, <<BAR>>>>, n) \o tail, <<NL>>)>> \o more :
        n \in 1..MaxRep,
        tail \in {<<>>} \cup {<<l>> : l \in LineKinds},
        more \in {<<>>, <<<<"b">>>>, <<<<"a", SP, SP, "b">>>>}}

DocTexts == UNION {TextLists(k, MaxLines) : k \in 0..MaxPages} \cup AlternatingLists

\* extract_pages numbers the pages it keeps in increasing order
PageLists == {[i \in 1..Len(d) |-> [page_number |-> i, text |-> d[i]]] : d \in DocTexts}

SizeArgs == {<<>>} \cup {<<n>> : n \in 0..MaxChunkSize}
OverlapArgs == {<<>>} \cup {<<n>> : n \in 0..MaxOverlap}

\* x or default
OrDefault(arg, default) == IF arg # <<>> /\ arg[1] # 0 THEN arg[1] ELSE default

(***************************************************************************)
(* chunk_pages as one accumulating pass                                    *)
(***************************************************************************)
VARIABLES
    pages, arg_size, arg_overlap,      \* the call's arguments
    pc,                                \* where the call is
    chunk_size, chunk_overlap,         \* lines 222-223
    full_text, page_boundaries,        \* lines 229-236
    sections, si,                      \* the section loop (si: index of the next section)
    blocks, bi, offset,                \* the block loop (bi: index of the next block)
    page_num,
    chunks, chunk_id,                  \* the result and the next id
    paragraphs, pi, current, text_chunks,   \* the frame of _chunk_text_block
    para, pos                          \* its sliding window

VARIABLES
    table_data, context_text,          \* the arguments of classify_table
    cpc,                               \* where that call is
    combined_text,                     \* line 56
    financial, fundraising,            \* the two rules' (flag, score, category)
    result                             \* the dict returned

VARIABLES
    input_path, resume,                \* the arguments of run_pipeline
    facts,                             \* the facts table: doc_id -> status
    ppc,                               \* where that call is
    pdf_files, processed, stats,       \* lines 102-122
    fi,                                \* index of the next file of the loop
    calls,                             \* the doc_ids given to process_single_pdf so far
    index,                             \* the chunks of the saved vector index
    store                              \* VectorStore.chunks of the run

VARIABLES
    position, boundaries,              \* the arguments of _get_page_for_position
    lpc,                               \* where that call is
    located                            \* the page number returned

VARIABLES
    context_chunks, table_page, table_index,   \* the arguments of extract_title_from_context
    tpc,                               \* where that call is
    title                              \* the value returned

VARIABLES
    retrieved, answers,                \* per field: chunks were found, what chat_json returns
    epc,                               \* where the call of extract_facts is
    fno,                               \* index of the next field of the loop
    raw_responses, overall_status,     \* the locals of extract_facts
    record                             \* the FactRecord built and returned

VARIABLES
    tables, dry_run,                   \* the tables of the document read, the dry_run argument
    mpc,                               \* where the call of process_document_tables is
    ti,                                \* index of the table the detection loop is at
    merge_groups, current_group, current_merge_type,   \* the locals of the detection
    final_tables                       \* the tables written back

chunker == <<pages, arg_size, arg_overlap, pc, chunk_size, chunk_overlap, full_text,
             page_boundaries, sections, si, blocks, bi, offset, page_num, chunks,
             chunk_id, paragraphs, pi, current, text_chunks, para, pos>>
classifier == <<table_data, context_text, cpc, combined_text, financial, fundraising,
                result>>
pipeline == <<input_path, resume, facts, ppc, pdf_files, processed, stats, fi, calls,
              index, store>>

locator == <<position, boundaries, lpc, located>>

titler == <<context_chunks, table_page, table_index, tpc, title>>

extractor == <<retrieved, answers, epc, fno, raw_responses, overall_status, record>>

merger == <<tables, dry_run, mpc, ti, merge_groups, current_group, current_merge_type,
            final_tables>>
vars == <<chunker, classifier, pipeline, locator, titler, extractor, merger>>

\* what a call of one component leaves alone
outsideChunker == <<classifier, pipeline, locator, titler, extractor, merger>>
outsideClassifier == <<chunker, pipeline, locator, titler, extractor, merger>>
outsidePipeline == <<chunker, classifier, locator, titler, extractor, merger>>
outsideLocator == <<chunker, classifier, pipeline, titler, extractor, merger>>
outsideTitler == <<chunker, classifier, pipeline, locator, extractor, merger>>
outsideExtractor == <<chunker, classifier, pipeline, locator, titler, merger>>
outsideMerger == <<chunker, classifier, pipeline, locator, titler, extractor>>

args == <<pages, arg_size, arg_overlap>>
head == <<chunk_size, chunk_overlap, full_text, page_boundaries, sections>>
frame == <<paragraphs, pi, current, text_chunks, para, pos>>

\* no call of chunk_pages is under way
ChunkerIdle ==
    /\ pages = <<>> /\ arg_size = <<>> /\ arg_overlap = <<>>
    /\ pc = "idle"
    /\ chunk_size = 0 /\ chunk_overlap = 0
    /\ full_text = <<>> /\ page_boundaries = <<>>
    /\ sections = <<>> /\ si = 0
    /\ blocks = <<>> /\ bi = 0 /\ offset = 0
    /\ page_num = 0
    /\ chunks = <<>> /\ chunk_id = 0
    /\ paragraphs = <<>> /\ pi = 0 /\ current = <<>> /\ text_chunks = <<>>
    /\ para = <<>> /\ pos = 0

NoScore == [flag |-> FALSE, score |-> 0, category |-> "unknown"]
NoResult == [type |-> "", confidence |-> 0, category |-> "", suggested_title |-> <<>>]

\* no call of classify_table is under way
ClassifierIdle ==
    /\ table_data = [columns |-> <<>>, rows |-> <<>>]
    /\ context_text = <<>>
    /\ cpc = "idle"
    /\ combined_text = <<>>
    /\ financial = NoScore /\ fundraising = NoScore
    /\ result = NoResult

NoStats == [total |-> 0, success |-> 0, failed |-> 0, skipped |-> 0]

\* no call of run_pipeline is under way
PipelineIdle ==
    /\ input_path = <<>> /\ resume = FALSE
    /\ facts = <<>>
    /\ ppc = "idle"
    /\ pdf_files = <<>> /\ processed = {}
    /\ stats = NoStats
    /\ fi = 0
    /\ calls = <<>>
    /\ index = EmptyBag /\ store = EmptyBag

\* no call of _get_page_for_position is under way
LocatorIdle ==
    /\ position = 0 /\ boundaries = <<>>
    /\ lpc = "idle"
    /\ located = 0

\* no call of extract_title_from_context is under way
TitlerIdle ==
    /\ context_chunks = <<>> /\ table_page = 0 /\ table_index = 0
    /\ tpc = "idle"
    /\ title = <<>>

\* no call of extract_facts is under way
ExtractorIdle ==
    /\ retrieved = <<>> /\ answers = <<>>
    /\ epc = "idle"
    /\ fno = 0
    /\ raw_responses = <<>> /\ overall_status = ""
    /\ record = <<>>

\* no call of process_document_tables is under way
MergerIdle ==
    /\ tables = <<>> /\ dry_run = FALSE
    /\ mpc = "idle"
    /\ ti = 0
    /\ merge_groups = <<>> /\ current_group = <<>> /\ current_merge_type = ""
    /\ final_tables = <<>>

Init ==
    /\ ClassifierIdle /\ PipelineIdle /\ LocatorIdle /\ TitlerIdle /\ ExtractorIdle /\ MergerIdle
    /\ pages \in PageLists
    /\ arg_size \in SizeArgs
    /\ arg_overlap \in OverlapArgs
    /\ pc = "call"
    /\ chunk_size = 0 /\ chunk_overlap = 0
    /\ full_text = <<>> /\ page_boundaries = <<>>
    /\ sections = <<>> /\ si = 0
    /\ blocks = <<>> /\ bi = 0 /\ offset = 0
    /\ page_num = 0
    /\ chunks = <<>> /\ chunk_id = 0
    /\ paragraphs = <<>> /\ pi = 0 /\ current = <<>> /\ text_chunks = <<>>
    /\ para = <<>> /\ pos = 0

\* full_text after the page loop
FullText(ps) == Join([i \in 1..Len(ps) |-> ps[i].text \o <<NL, NL>>], <<>>)

\* page_boundaries after the page loop
PageBoundaries(ps) ==
    LET end(i) == Len(FullText(SubSeq(ps, 1, i)))
    IN  [i \in 1..Len(ps) |->
            [start |-> end(i - 1), end |-> end(i), page_num |-> ps[i].page_number]]

Chunk(id, text, page, section, chunk_type) ==
    [doc_id |-> DocId, chunk_id |-> id, text |-> text, page |-> page,
     section |-> section, chunk_type |-> chunk_type]

\* lines 222-243: defaults, the empty page list, full text, boundaries, sections
Enter ==
    /\ pc = "call"
    /\ chunk_size' = OrDefault(arg_size, DEFAULT_CHUNK_SIZE)
    /\ chunk_overlap' = OrDefault(arg_overlap, DEFAULT_CHUNK_OVERLAP)
    /\ chunks' = <<>>
    /\ chunk_id' = 0
    /\ IF pages = <<>>
       THEN /\ pc' = "done"
            /\ UNCHANGED <<full_text, page_boundaries, sections, si>>
       ELSE /\ full_text' = FullText(pages)
            /\ page_boundaries' = PageBoundaries(pages)
            /\ sections' = SplitBySections(FullText(pages))
            /\ si' = 1
            /\ pc' = "section"
    /\ UNCHANGED <<args, blocks, bi, offset, page_num, frame>>
    /\ UNCHANGED outsideChunker

\* lines 245-253: the next section, or the return when there is none
NextSection ==
    /\ pc = "section"
    /\ IF si > Len(sections)
       THEN /\ pc' = "done"
            /\ UNCHANGED <<blocks, bi, offset>>
       ELSE /\ blocks' = SplitTextAndTables(sections[si].text)
            /\ offset' = sections[si].start
            /\ bi' = 1
            /\ pc' = "block"
    /\ UNCHANGED <<args, head, si, page_num, chunks, chunk_id, frame>>
    /\ UNCHANGED outsideChunker

\* variant of TableChunks: the table is sliced into windows of chunk_size characters
RECURSIVE TableChunksSliced(_, _, _, _)
TableChunksSliced(content, id, page, section) ==
    IF Len(content) <= chunk_size
    THEN <<Chunk(id, content, page, section, "table")>>
    ELSE <<Chunk(id, PySlice(content, 0, chunk_size), page, section, "table")>>
             \o TableChunksSliced(PySlice(content, chunk_size, Len(content)),
                                  id, page, section)

\* variant of TableChunks: the table is cut at chunk_size like a window of prose
TableChunksCut(content, id, page, section) ==
    <<Chunk(id, PySlice(content, 0, chunk_size), page, section, "table")>>

\* lines 264-275: a table block becomes one chunk with the block's content untouched
TableChunks(content, id, page, section) ==
    <<Chunk(id, content, page, section, "table")>>

\* variant of Fits: the "\n\n" that joins the paragraphs is not counted
FitsUnjoined(p) == Len(current) + Len(p) <= chunk_size

\* line 163: the paragraph p still fits the running buffer
Fits(p) == Len(current) + Len(p) + 2 <= chunk_size

\* lines 255-278 and 292: the next block of the section.  A table block is emitted
\* whole; a text block enters _chunk_text_block (lines 149-156).
NextBlock ==
    /\ pc = "block"
    /\ IF bi > Len(blocks)
       THEN /\ si' = si + 1
            /\ pc' = "section"
            /\ UNCHANGED <<bi, offset, page_num, chunks, chunk_id, frame>>
       ELSE LET block_type == blocks[bi].type
                content == blocks[bi].content
                page == GetPageForPosition(offset, page_boundaries)
            IN  IF Strip(content) = <<>>
                THEN /\ bi' = bi + 1
                     /\ UNCHANGED <<si, pc, offset, page_num, chunks, chunk_id, frame>>
                ELSE IF block_type = "table"
                THEN /\ page_num' = page
                     /\ chunks' = chunks \o TableChunks(content, chunk_id, page,
                                                          sections[si].title)
                     /\ chunk_id' = chunk_id + 1
                     /\ offset' = offset + Len(content) + 2
                     /\ bi' = bi + 1
                     /\ UNCHANGED <<si, pc, frame>>
                ELSE /\ page_num' = page
                     /\ IF Len(content) <= chunk_size
                        THEN /\ text_chunks' = <<content>>
                             /\ pc' = "emit"
                             /\ UNCHANGED <<paragraphs, pi, current>>
                        ELSE /\ paragraphs' = SplitParagraphs(content)
                             /\ pi' = 1
                             /\ current' = <<>>
                             /\ text_chunks' = <<>>
                             /\ pc' = "para"
                     /\ UNCHANGED <<si, bi, offset, chunks, chunk_id, para, pos>>
    /\ UNCHANGED <<args, head, blocks>>
    /\ UNCHANGED outsideChunker

\* lines 158-185: one paragraph of the text block, or the final flush and return
NextPara ==
    /\ pc = "para"
    /\ IF pi > Len(paragraphs)
       THEN /\ text_chunks' = IF Strip(current) # <<>>
                              THEN Append(text_chunks, Strip(current))
                              ELSE text_chunks
            /\ pc' = "emit"
            /\ UNCHANGED <<pi, current, para, pos>>
       ELSE LET p == Strip(paragraphs[pi])
                flushed == IF current # <<>>
                           THEN Append(text_chunks, Strip(current))
                           ELSE text_chunks
            IN  IF p = <<>>
                THEN /\ pi' = pi + 1
                     /\ UNCHANGED <<pc, current, text_chunks, para, pos>>
                ELSE IF Fits(p)
                THEN /\ current' = IF current # <<>> THEN current \o <<NL, NL>> \o p ELSE p
                     /\ pi' = pi + 1
                     /\ UNCHANGED <<pc, text_chunks, para, pos>>
                ELSE IF Len(p) <= chunk_size
                THEN /\ text_chunks' = flushed
                     /\ current' = p
                     /\ pi' = pi + 1
                     /\ UNCHANGED <<pc, para, pos>>
                ELSE /\ text_chunks' = flushed
                     /\ para' = p
                     /\ pos' = 0
                     /\ pc' = "window"
                     /\ UNCHANGED <<pi, current>>
    /\ UNCHANGED <<args, head, si, blocks, bi, offset, page_num, chunks, chunk_id,
                   paragraphs>>
    /\ UNCHANGED outsideChunker

\* variant of Window: the loop runs only while a whole window is left
WindowWholeOnly ==
    /\ pc = "window"
    /\ LET step == chunk_size - chunk_overlap
       IN  IF pos + chunk_size <= Len(para)
           THEN /\ step > 0 \/ Len(text_chunks) < MaxStuck
                /\ text_chunks' = Append(text_chunks,
                                         Strip(PySlice(para, pos, pos + chunk_size)))
                /\ pos' = pos + step
                /\ UNCHANGED <<pc, pi, current>>
           ELSE /\ current' = <<>>
                /\ pi' = pi + 1
                /\ pc' = "para"
                /\ UNCHANGED <<text_chunks, pos>>
    /\ UNCHANGED <<args, head, si, blocks, bi, offset, page_num, chunks, chunk_id,
                   paragraphs, para>>
    /\ UNCHANGED outsideChunker

\* lines 174-180: one turn of the sliding-window loop, or its exit.  A window that
\* does not advance (step <= 0) is followed for MaxStuck slices.
Window ==
    /\ pc = "window"
    /\ LET step == chunk_size - chunk_overlap
       IN  IF pos < Len(para)
           THEN /\ step > 0 \/ Len(text_chunks) < MaxStuck
                /\ LET end == IF pos + chunk_size < Len(para)
                              THEN pos + chunk_size ELSE Len(para)
                   IN  text_chunks' = Append(text_chunks, Strip(PySlice(para, pos, end)))
                /\ pos' = pos + step
                /\ UNCHANGED <<pc, pi, current>>
           ELSE /\ current' = <<>>
                /\ pi' = pi + 1
                /\ pc' = "para"
                /\ UNCHANGED <<text_chunks, pos>>
    /\ UNCHANGED <<args, head, si, blocks, bi, offset, page_num, chunks, chunk_id,
                   paragraphs, para>>
    /\ UNCHANGED outsideChunker

\* variant of TextChunks: the id is not advanced between the pieces of a block
TextChunksSameId(tcs, id, page, section) ==
    LET kept == SelectSeq(tcs, LAMBDA tc : Strip(tc) # <<>>)
    IN  [i \in 1..Len(kept) |-> Chunk(id, kept[i], page, section, "text")]

\* variant of TextChunks: blank pieces are not skipped
TextChunksUnfiltered(tcs, id, page, section) ==
    [i \in 1..Len(tcs) |-> Chunk(id + i - 1, tcs[i], page, section, "text")]

\* the chunks lines 279-289 append for the pieces tcs, ids counting from id
RECURSIVE TextChunks(_, _, _, _)
TextChunks(tcs, id, page, section) ==
    IF tcs = <<>> THEN <<>>
    ELSE IF Strip(Head(tcs)) # <<>>
    THEN <<Chunk(id, Head(tcs), page, section, "text")>>
             \o TextChunks(Tail(tcs), id + 1, page, section)
    ELSE TextChunks(Tail(tcs), id, page, section)

\* lines 279-292: the pieces _chunk_text_block returned become chunks
EmitText ==
    /\ pc = "emit"
    /\ LET new == TextChunks(text_chunks, chunk_id, page_num, sections[si].title)
       IN  /\ chunks' = chunks \o new
           /\ chunk_id' = chunk_id + Len(new)
    /\ offset' = offset + Len(blocks[bi].content) + 2
    /\ bi' = bi + 1
    /\ pc' = "block"
    /\ UNCHANGED <<args, head, si, blocks, page_num, frame>>
    /\ UNCHANGED outsideChunker

Next == Enter \/ NextSection \/ NextBlock \/ NextPara \/ Window \/ EmitText

Spec == Init /\ [][Next]_vars

\* the calls on page lists of at most one page
OnePageInit == Init /\ Len(pages) <= 1

\* the moves of pc that Enter and NextSection make, and they alone
Begin == pc = "call" /\ pc' \in {"done", "section"}
Turn == pc = "section" /\ pc' \in {"done", "block"}

\* chunk_pages is one sequential call: a step that can be taken is taken.  Enter and
\* NextSection can be taken whenever the call is at their position and always move
\* it, so their fairness is stated on that move.
FairSpec ==
    /\ OnePageInit /\ [][Next]_vars
    /\ WF_pc(Begin) /\ WF_pc(Turn)
    /\ WF_vars(NextBlock) /\ WF_vars(NextPara) /\ WF_vars(Window) /\ WF_vars(EmitText)

(***************************************************************************)
(* classify_table in two steps: the scores, then the decision              *)
(***************************************************************************)
ClassifierInit ==
    /\ ChunkerIdle /\ PipelineIdle /\ LocatorIdle /\ TitlerIdle /\ ExtractorIdle /\ MergerIdle
    /\ table_data \in Grids \cup TallGrids
    /\ context_text \in Contexts
    /\ cpc = "call"
    /\ combined_text = <<>>
    /\ financial = NoScore /\ fundraising = NoScore
    /\ result = NoResult

\* lines 55-66: the combined text and the score of each rule
ScoreTable ==
    /\ cpc = "call"
    /\ LET text == CombinedText(table_data, context_text)
       IN  /\ combined_text' = text
           /\ financial' = IsFinancialReport(table_data, text)
           /\ fundraising' = IsFundraisingTable(table_data, text)
    /\ cpc' = "scored"
    /\ UNCHANGED <<table_data, context_text, result>>
    /\ UNCHANGED outsideClassifier

\* lines 68-89: the decision and the return
DecideType ==
    /\ cpc = "scored"
    /\ result' = Decide(combined_text, financial, fundraising)
    /\ cpc' = "done"
    /\ UNCHANGED <<table_data, context_text, combined_text, financial, fundraising>>
    /\ UNCHANGED outsideClassifier

ClassifierNext == ScoreTable \/ DecideType

ClassifierSpec == ClassifierInit /\ [][ClassifierNext]_vars

(***************************************************************************)
(* run_pipeline.  A document is its doc_id (the file name without suffix); *)
(* the files of a directory have different doc_ids and are taken in sorted *)
(* order.  What happens inside process_single_pdf (pages found, an         *)
(* exception, the status of the extracted record) is an input of each turn.*)
(* The vector index is the bag of the (doc_id, chunk_id) of its chunks.    *)
(***************************************************************************)
MaxDocs == 3

DocIds == 1..MaxDocs
Statuses == {"success", "failed", "partial"}
Absent == "absent"

\* sorted(files)
RECURSIVE SortedSeq(_)
SortedSeq(S) == IF S = {} THEN <<>> ELSE <<MinOf(S)>> \o SortedSeq(S \ {MinOf(S)})

\* a path that does not exist, one file, or a directory and its *.pdf files
InputPaths ==
    {[kind |-> "missing", files |-> {}]}
        \cup {[kind |-> "file", files |-> {d}] : d \in DocIds}
        \cup {[kind |-> "dir", files |-> S] : S \in SUBSET DocIds}

\* what a call of process_single_pdf meets: no page, an exception before or after
\* store.add, or a record
Outcomes == {"no_pages", "raised", "raised_indexed"} \cup Statuses

\* the chunk ids chunk_pages gives the chunks of a document: 0..N-1, here N = doc_id
ChunkIdsOf(doc_id) == 0..(doc_id - 1)

\* the chunks of the documents docs, one of each
ChunksOf(docs) == SetToBag(UNION {{<<d, c>> : c \in ChunkIdsOf(d)} : d \in docs})

\* VectorStore.add(chunks) for the chunks of one document
StoreAdd(held, doc_id) == held (+) ChunksOf({doc_id})

\* variant of GetProcessedDocIds: every stored record counts as processed
GetProcessedDocIdsAnyStatus(table) == {d \in DOMAIN table : table[d] # Absent}

\* FactDB.get_processed_doc_ids()
GetProcessedDocIds(table) == {d \in DOMAIN table : table[d] \in {"success", "partial"}}

\* process_single_pdf(pdf_path, store, db): the facts table and the store after it,
\* and its result
ProcessSinglePdf(table, held, doc_id, outcome) ==
    IF outcome \in Statuses
    THEN [facts |-> [table EXCEPT ![doc_id] = outcome],
          store |-> StoreAdd(held, doc_id), ok |-> outcome # "failed"]
    ELSE IF outcome = "raised_indexed"
    THEN [facts |-> table, store |-> StoreAdd(held, doc_id), ok |-> FALSE]
    ELSE [facts |-> table, store |-> held, ok |-> FALSE]

PipelineInit ==
    /\ ChunkerIdle /\ ClassifierIdle /\ LocatorIdle /\ TitlerIdle /\ ExtractorIdle /\ MergerIdle
    /\ input_path \in InputPaths
    /\ resume \in BOOLEAN
    /\ facts \in [DocIds -> Statuses \cup {Absent}]
    /\ \E indexed \in SUBSET DocIds :
           /\ \A d \in DocIds : facts[d] # Absent => d \in indexed
           /\ index = ChunksOf(indexed)
    /\ store = EmptyBag
    /\ ppc = "call"
    /\ pdf_files = <<>> /\ processed = {}
    /\ stats = NoStats
    /\ fi = 0
    /\ calls = <<>>

\* lines 101-122: the files, the early returns, the loaded index, the processed set
\* and the counters
StartPipeline ==
    /\ ppc = "call"
    /\ IF input_path.kind = "missing"
       THEN /\ ppc' = "raised"
            /\ UNCHANGED <<pdf_files, processed, stats, fi, store>>
       ELSE /\ pdf_files' = SortedSeq(input_path.files)
            /\ IF input_path.files = {}
               THEN /\ stats' = NoStats
                    /\ ppc' = "done"
                    /\ UNCHANGED <<processed, fi, store>>
               ELSE /\ store' = index
                    /\ processed' = IF resume THEN GetProcessedDocIds(facts) ELSE {}
                    /\ stats' = [NoStats EXCEPT !.total = Cardinality(input_path.files)]
                    /\ fi' = 1
                    /\ ppc' = "loop"
    /\ UNCHANGED <<input_path, resume, facts, calls, index>>
    /\ UNCHANGED outsidePipeline

\* lines 124-137: one turn of the loop over the files
NextPdf ==
    /\ ppc = "loop"
    /\ fi <= Len(pdf_files)
    /\ LET doc_id == pdf_files[fi]
       IN  IF doc_id \in processed
           THEN /\ stats' = [stats EXCEPT !.skipped = @ + 1]
                /\ UNCHANGED <<facts, calls, store>>
           ELSE \E outcome \in Outcomes :
                    LET done == ProcessSinglePdf(facts, store, doc_id, outcome)
                    IN  /\ calls' = Append(calls, doc_id)
                        /\ facts' = done.facts
                        /\ store' = done.store
                        /\ stats' = IF done.ok
                                    THEN [stats EXCEPT !.success = @ + 1]
                                    ELSE [stats EXCEPT !.failed = @ + 1]
    /\ fi' = fi + 1
    /\ UNCHANGED <<input_path, resume, ppc, pdf_files, processed, index>>
    /\ UNCHANGED outsidePipeline

\* lines 139-146: the loop is over, the index is saved, the counters are returned
FinishPipeline ==
    /\ ppc = "loop"
    /\ fi > Len(pdf_files)
    /\ index' = store
    /\ ppc' = "done"
    /\ UNCHANGED <<input_path, resume, facts, pdf_files, processed, stats, fi, calls,
                   store>>
    /\ UNCHANGED outsidePipeline

PipelineNext == StartPipeline \/ NextPdf \/ FinishPipeline

PipelineSpec == PipelineInit /\ [][PipelineNext]_vars

(***************************************************************************)
(* _get_page_for_position on its own.  The function reads the end and the  *)
(* page number of a triple, never its start; the triples given to it here  *)
(* are chained (each starts where the one before ends) with any ends, so   *)
(* the lists chunk_pages builds are among them.                            *)
(***************************************************************************)
MaxSpans == 2
MaxEnd == 4

Positions == (0 - 1)..(MaxEnd + 1)

BoundaryLists ==
    UNION {{[i \in 1..n |-> [start |-> IF i = 1 THEN 0 ELSE e[i - 1],
                             end |-> e[i], page_num |-> p[i]]] :
                e \in [1..n -> 0..MaxEnd], p \in [1..n -> 1..MaxSpans]} :
           n \in 0..MaxSpans}

LocatorInit ==
    /\ ChunkerIdle /\ ClassifierIdle /\ PipelineIdle /\ TitlerIdle /\ ExtractorIdle /\ MergerIdle
    /\ position \in Positions
    /\ boundaries \in BoundaryLists
    /\ lpc = "call"
    /\ located = 0

\* lines 192-196: the scan of the triples and the return
Locate ==
    /\ lpc = "call"
    /\ located' = GetPageForPosition(position, boundaries)
    /\ lpc' = "done"
    /\ UNCHANGED <<position, boundaries>>
    /\ UNCHANGED outsideLocator

LocatorNext == Locate

LocatorSpec == LocatorInit /\ [][LocatorNext]_vars

(***************************************************************************)
(* extract_title_from_context on its own                                   *)
(***************************************************************************)
MaxTitleChunks == 2

\* chunk texts: a keyword line of the least length, one too short, the same padded
\* with spaces, a padded keyword line, a number line, lines of the greatest length and
\* one more, a keyword line before a plain line, two keyword lines, a blank text
TitleTexts ==
    { BalanceSheet, NetProfit, <<SP, SP>> \o NetProfit,
      <<SP>> \o RaisedFunds \o Usage \o <<SP>>,
      <<"1", "2", DOT, "5", "%">>,
      Repeat(BalanceSheet, TITLE_LINE_MAX \div Len(BalanceSheet)),
      Repeat(BalanceSheet, TITLE_LINE_MAX \div Len(BalanceSheet)) \o <<"x">>,
      IncomeStatement \o <<"x", "x", NL, "x", "x", "x", "x", "x">>,
      CashFlowStatement \o <<NL>> \o OwnersEquity,
      <<NL>> }

ChunkPages == 1..(MaxTitleChunks + 1)
TablePages == 2..(MaxTitleChunks + 1)
TableIndexes == 0..1

ContextChunks ==
    UNION {[1..n -> [page : ChunkPages, text : TitleTexts]] : n \in 0..MaxTitleChunks}

TitlerInit ==
    /\ ChunkerIdle /\ ClassifierIdle /\ PipelineIdle /\ LocatorIdle /\ ExtractorIdle /\ MergerIdle
    /\ context_chunks \in ContextChunks
    /\ table_page \in TablePages
    /\ table_index \in TableIndexes
    /\ tpc = "call"
    /\ title = <<>>

\* lines 245-277: the whole call
ExtractTitle ==
    /\ tpc = "call"
    /\ title' = ExtractTitleFromContext(context_chunks, table_page, table_index)
    /\ tpc' = "done"
    /\ UNCHANGED <<context_chunks, table_page, table_index>>
    /\ UNCHANGED outsideTitler

TitlerNext == ExtractTitle

TitlerSpec == TitlerInit /\ [][TitlerNext]_vars

(***************************************************************************)
(* extract_facts (src/src/extraction/extractor.py).  What the retrieval    *)
(* and the LLM give for a field is an input: whether chunks were found and *)
(* the value chat_json returns, None (<<>>) or a JSON object (<<o>>).  An  *)
(* object is a function from keys to the kind of their value, a string or  *)
(* a number.  Every key of a schema is a string with a default; keys       *)
(* outside the schema are ignored.  The empty string is <<>>.              *)
(***************************************************************************)
\* FIELD_CONFIGS in its order
FIELD_NAMES == <<"deal_summary", "acquisition_purpose">>

Fields == {FIELD_NAMES[i] : i \in 1..Len(FIELD_NAMES)}

\* the keys of DealSummary and AcquisitionPurpose that the objects here may carry
Schema(field_name) == IF field_name = "deal_summary" THEN {"target"} ELSE {"summary"}

ObjectKeys == UNION {Schema(f) : f \in Fields}

JsonKinds == {"string", "number"}

JsonObjects == UNION {[K -> JsonKinds] : K \in SUBSET ObjectKeys}

\* what chat_json returns: None or a JSON object
ChatResults == {<<>>} \cup {<<o>> : o \in JsonObjects}

\* model_cls.model_validate(raw_result) does not raise
Validates(field_name, o) ==
    \A k \in DOMAIN o \cap Schema(field_name) : o[k] = "string"

\* validated.model_dump(): every key of the schema, given or default
ModelDump(field_name, o) ==
    [k \in Schema(field_name) |-> IF k \in DOMAIN o THEN "given" ELSE "default"]

\* str(raw_result): the braces and what is between them
Str(o) == <<"{", o, "}">>

\* extract_field(store, doc_id, field_name): the ExtractionResult
ExtractField(field_name, found, raw_result) ==
    IF ~found
    THEN [status |-> "failed", data |-> <<>>, raw_response |-> <<>>]
    ELSE IF raw_result = <<>>
    THEN [status |-> "failed", data |-> <<>>, raw_response |-> <<>>]
    ELSE IF Validates(field_name, raw_result[1])
    THEN [status |-> "success", data |-> <<ModelDump(field_name, raw_result[1])>>,
          raw_response |-> Str(raw_result[1])]
    ELSE [status |-> "failed", data |-> <<>>, raw_response |-> Str(raw_result[1])]

\* FactRecord(doc_id=..., company_name=..., stock_code=...)
NewRecord == [status |-> "success", data |-> [f \in Fields |-> <<>>]]

ExtractorInit ==
    /\ ChunkerIdle /\ ClassifierIdle /\ PipelineIdle /\ LocatorIdle /\ TitlerIdle /\ MergerIdle
    /\ retrieved \in [Fields -> BOOLEAN]
    /\ answers \in [Fields -> ChatResults]
    /\ epc = "call"
    /\ fno = 0
    /\ raw_responses = <<>> /\ overall_status = ""
    /\ record = <<>>

\* lines 126-132: the empty record and the locals
StartExtract ==
    /\ epc = "call"
    /\ record' = NewRecord
    /\ raw_responses' = [f \in {} |-> <<>>]
    /\ overall_status' = "success"
    /\ fno' = 1
    /\ epc' = "loop"
    /\ UNCHANGED <<retrieved, answers>>
    /\ UNCHANGED outsideExtractor

\* lines 134-147: one turn of the loop over FIELD_CONFIGS
NextField ==
    /\ epc = "loop"
    /\ fno <= Len(FIELD_NAMES)
    /\ LET field_name == FIELD_NAMES[fno]
           got == ExtractField(field_name, retrieved[field_name], answers[field_name])
       IN  /\ raw_responses' = [f \in DOMAIN raw_responses \cup {field_name} |->
                                    IF f = field_name THEN got.raw_response
                                    ELSE raw_responses[f]]
           /\ IF got.status = "failed"
              THEN /\ overall_status' = "partial"
                   /\ UNCHANGED record
              ELSE /\ record' = IF got.data # <<>>
                                THEN [record EXCEPT !.data[field_name] = got.data]
                                ELSE record
                   /\ UNCHANGED overall_status
    /\ fno' = fno + 1
    /\ UNCHANGED <<retrieved, answers, epc>>
    /\ UNCHANGED outsideExtractor

\* lines 149-159: the overall status and the return
FinishExtract ==
    /\ epc = "loop"
    /\ fno > Len(FIELD_NAMES)
    /\ LET status == IF \A f \in Fields :
                           f \notin DOMAIN raw_responses \/ raw_responses[f] = <<>>
                     THEN "failed"
                     ELSE overall_status
       IN  /\ overall_status' = status
           /\ record' = [record EXCEPT !.status = status]
    /\ epc' = "done"
    /\ UNCHANGED <<retrieved, answers, fno, raw_responses>>
    /\ UNCHANGED outsideExtractor

ExtractorNext == StartExtract \/ NextField \/ FinishExtract

ExtractorSpec == ExtractorInit /\ [][ExtractorNext]_vars

(***************************************************************************)
(* Cross-page table merging (src/scripts/merge_cross_page_tables.py).  A   *)
(* table is its table_id, its page and its data, a sequence of rows; a row *)
(* is a sequence of cells and a cell a string.  The CJK characters of the  *)
(* header keywords are written with their pinyin ("ming" "cheng" is U+540D *)
(* U+79F0, "mingb" is U+660E; the names are those of this part alone).    *)
(* A missing merge type (None) is "".                                      *)
(***************************************************************************)
SIMILARITY_THRESHOLD_PCT == 70
HEADER_KEYWORDS_MIN == 2

\* header_keywords of looks_like_header
HEADER_KEYWORDS == <<
    <<"ming", "cheng">>, <<"bian", "hao">>, <<"xu", "hao">>, <<"xiang", "mu">>,
    <<"nei", "rong">>, <<"jin", "e">>, <<"shu", "liang">>, <<"dan", "wei">>,
    <<"ri", "qi">>, <<"lei", "xing">>, <<"shuo", "mingb">>, <<"bei", "zhu">>,
    <<"he", "ji">>, <<"xiao", "ji">>, <<"bi", "li">>, <<"zhan", "bi">>,
    <<"nian", "du">>, <<"qi", "jian">>,
    <<"N", "a", "m", "e">>, <<"N", "o">>, <<"I", "t", "e", "m">>,
    <<"A", "m", "o", "u", "n", "t">>, <<"D", "a", "t", "e">>, <<"T", "y", "p", "e">>,
    <<"T", "o", "t", "a", "l">>, <<"R", "a", "t", "i", "o">> >>

\* SequenceMatcher.find_longest_match over the whole of a and b: the longest common
\* block, the earliest in a and then in b among the longest; <<i, j, k>>, 0-based
LongestMatch(a, b) ==
    LET common == {m \in (0..Len(a)) \X (0..Len(b)) \X (0..Len(a)) :
                      /\ m[1] + m[3] <= Len(a) /\ m[2] + m[3] <= Len(b)
                      /\ SubSeq(a, m[1] + 1, m[1] + m[3]) = SubSeq(b, m[2] + 1, m[2] + m[3])}
        k == MaxOf({m[3] : m \in common})
        i == MinOf({m[1] : m \in {n \in common : n[3] = k}})
        j == MinOf({m[2] : m \in {n \in common : n[3] = k /\ n[1] = i}})
    IN  <<i, j, k>>

\* the number of matched characters of SequenceMatcher.get_matching_blocks
RECURSIVE MatchedChars(_, _)
MatchedChars(a, b) ==
    LET m == LongestMatch(a, b)
    IN  IF m[3] = 0 THEN 0
        ELSE m[3] + MatchedChars(SubSeq(a, 1, m[1]), SubSeq(b, 1, m[2]))
                  + MatchedChars(SubSeq(a, m[1] + m[3] + 1, Len(a)),
                                 SubSeq(b, m[2] + m[3] + 1, Len(b)))

\* calculate_similarity(text1, text2) >= threshold, the ratio 2*M/T in hundredths
SimilarTexts(text1, text2) ==
    IF text1 = <<>> \/ text2 = <<>> THEN FALSE
    ELSE 2 * MatchedChars(text1, text2) * 100
            >= SIMILARITY_THRESHOLD_PCT * (Len(text1) + Len(text2))

\* ' '.join([str(x) for x in row.tolist()])
RowStr(row) == Join(row, <<SP>>)

\* check_header_similarity(df1, df2, threshold)
CheckHeaderSimilarity(data1, data2) ==
    IF data1 = <<>> \/ data2 = <<>> THEN FALSE
    ELSE SimilarTexts(RowStr(data1[1]), RowStr(data2[1]))

\* looks_like_header(row)
LooksLikeHeader(row) ==
    Cardinality({k \in 1..Len(HEADER_KEYWORDS) : Contains(RowStr(row), HEADER_KEYWORDS[k])})
        >= HEADER_KEYWORDS_MIN

\* len(pd.DataFrame(data).columns)
ColumnCount(data) == IF data = <<>> THEN 0 ELSE Len(data[1])

NoMerge == [merge |-> FALSE, type |-> ""]

\* should_merge_tables(table1, table2, similarity_threshold)
ShouldMergeTables(table1, table2) ==
    IF table2.page - table1.page # 1 THEN NoMerge
    ELSE IF ColumnCount(table1.data) # ColumnCount(table2.data) THEN NoMerge
    ELSE IF CheckHeaderSimilarity(table1.data, table2.data)
    THEN [merge |-> TRUE, type |-> "header_repeat"]
    ELSE IF table2.data # <<>> /\ ~LooksLikeHeader(table2.data[1])
    THEN [merge |-> TRUE, type |-> "data_continuation"]
    ELSE NoMerge

\* merge_tables(tables, merge_type): the rows of the merged DataFrame
RECURSIVE MergeTables(_, _)
MergeTables(group, merge_type) ==
    IF Len(group) <= 1 THEN (IF group = <<>> THEN <<>> ELSE group[1].data)
    ELSE LET df == group[Len(group)].data
         IN  MergeTables(SubSeq(group, 1, Len(group) - 1), merge_type)
                 \o (IF merge_type = "header_repeat" THEN Tail(df) ELSE df)

\* the merged table written for a group (lines 249-262)
MergedTable(group, merge_type) ==
    [table_id |-> <<group[1].table_id, "merged">>,
     page |-> <<group[1].page, group[Len(group)].page>>,
     data |-> MergeTables(group, merge_type),
     merged_from |-> [k \in 1..Len(group) |-> group[k].table_id],
     merged_pages |-> [k \in 1..Len(group) |-> group[k].page],
     merge_type |-> merge_type]

IsMerged(e) == "merged_from" \in DOMAIN e

\* int(str(x["page"]).split('-')[0])
PageKey(e) == IF IsMerged(e) THEN e.page[1] ELSE e.page

\* list.sort(key=...): in increasing key order, equal keys in the order they had
RECURSIVE SortByPage(_)
SortByPage(list) ==
    IF list = <<>> THEN <<>>
    ELSE LET least == MinOf({PageKey(list[k]) : k \in 1..Len(list)})
         IN  SelectSeq(list, LAMBDA e : PageKey(e) = least)
                 \o SortByPage(SelectSeq(list, LAMBDA e : PageKey(e) # least))

\* tables.index(t): the first position holding an equal table
IndexOf(list, t) == MinOf({k \in 1..Len(list) : list[k] = t})

MaxTables == 3

\* the characters of the cells
HeadName == <<"ming", "cheng">>
HeadAmount == <<"jin", "e">>
HeadAmountYuan == <<"jin", "e", "yuan">>

\* first rows: a header, a header close to it, a row with one keyword, two rows of
\* numbers, and a row of another width
FirstRows == {<<HeadName, HeadAmount>>, <<HeadName, HeadAmountYuan>>, <<HeadName, <<"1">>>>,
              <<<<"1">>, <<"2">>>>, <<<<"3">>, <<"4">>>>, <<<<"5">>>>}

\* a row of numbers under a first row, of its width
RowUnder(first) == [c \in 1..Len(first) |-> <<"7">>]

TableData == {<<first>> : first \in FirstRows} \cup {<<first, RowUnder(first)>> : first \in FirstRows}

\* a table follows the one before on its page, on the next page or a page further
PageSteps == 0..2

\* the table lists of at most MaxTables tables, in page order from page 1
RECURSIVE TableLists(_)
TableLists(n) ==
    IF n = 0 THEN {<<>>}
    ELSE LET shorter == TableLists(n - 1)
         IN  shorter \cup
             {Append(l, [table_id |-> Len(l) + 1,
                         page |-> IF l = <<>> THEN 1 ELSE l[Len(l)].page + step,
                         data |-> d]) :
                  l \in {x \in shorter : Len(x) = n - 1}, step \in PageSteps, d \in TableData}

MergerInit ==
    /\ ChunkerIdle /\ ClassifierIdle /\ PipelineIdle /\ LocatorIdle /\ TitlerIdle
    /\ ExtractorIdle
    /\ tables \in TableLists(MaxTables)
    /\ dry_run \in BOOLEAN
    /\ mpc = "call"
    /\ ti = 0
    /\ merge_groups = <<>> /\ current_group = <<>> /\ current_merge_type = ""
    /\ final_tables = <<>>

\* lines 185-203: the tables read, the early return, the first group
StartMerge ==
    /\ mpc = "call"
    /\ IF tables = <<>>
       THEN /\ mpc' = "done"
            /\ UNCHANGED <<ti, current_group>>
       ELSE /\ current_group' = <<tables[1]>>
            /\ ti' = 2
            /\ mpc' = "detect"
    /\ UNCHANGED <<tables, dry_run, merge_groups, current_merge_type, final_tables>>
    /\ UNCHANGED outsideMerger

\* lines 205-223: one turn of the detection loop
NextPair ==
    /\ mpc = "detect"
    /\ ti <= Len(tables)
    /\ LET verdict == ShouldMergeTables(tables[ti - 1], tables[ti])
       IN  IF verdict.merge
           THEN /\ current_group' = Append(current_group, tables[ti])
                /\ current_merge_type' = IF current_merge_type = "" THEN verdict.type
                                         ELSE current_merge_type
                /\ UNCHANGED merge_groups
           ELSE /\ merge_groups' = IF Len(current_group) > 1
                                   THEN Append(merge_groups,
                                               <<current_group, current_merge_type>>)
                                   ELSE merge_groups
                /\ current_group' = <<tables[ti]>>
                /\ current_merge_type' = ""
    /\ ti' = ti + 1
    /\ UNCHANGED <<tables, dry_run, mpc, final_tables>>
    /\ UNCHANGED outsideMerger

\* lines 225-238: the last group, the return of a dry run
CloseGroups ==
    /\ mpc = "detect"
    /\ ti > Len(tables)
    /\ merge_groups' = IF Len(current_group) > 1
                       THEN Append(merge_groups, <<current_group, current_merge_type>>)
                       ELSE merge_groups
    /\ mpc' = IF dry_run THEN "done" ELSE "merge"
    /\ UNCHANGED <<tables, dry_run, ti, current_group, current_merge_type, final_tables>>
    /\ UNCHANGED outsideMerger

\* lines 240-286: the merged tables, the tables kept, the sort by page
ExecuteMerge ==
    /\ mpc = "merge"
    /\ LET merged_tables == [g \in 1..Len(merge_groups) |->
                                 MergedTable(merge_groups[g][1], merge_groups[g][2])]
           merged_indices == UNION {{IndexOf(tables, merge_groups[g][1][k]) :
                                        k \in 1..Len(merge_groups[g][1])} :
                                    g \in 1..Len(merge_groups)}
           kept == SelectSeq(tables, LAMBDA t : IndexOf(tables, t) \notin merged_indices)
       IN  final_tables' = SortByPage(kept \o merged_tables)
    /\ mpc' = "done"
    /\ UNCHANGED <<tables, dry_run, ti, merge_groups, current_group, current_merge_type>>
    /\ UNCHANGED outsideMerger

MergerNext == StartMerge \/ NextPair \/ CloseGroups \/ ExecuteMerge

MergerSpec == MergerInit /\ [][MergerNext]_vars

(***************************************************************************)
(* Properties                                                              *)
(***************************************************************************)
Done == pc = "done"

TableChunkTexts ==
    LET t == SelectSeq(chunks, LAMBDA c : c.chunk_type = "table")
    IN  [i \in 1..Len(t) |-> t[i].text]

\* the contents of the table blocks of the section spans, in document order
TableBlockContents ==
    LET tableBlocks(sec) == SelectSeq(SplitTextAndTables(sec.text), LAMBDA b : b.type = "table")
        contents(bs) == [i \in 1..Len(bs) |-> bs[i].content]
    IN  Flatten([i \in 1..Len(sections) |-> contents(tableBlocks(sections[i]))])

\* C1: at every point of the pass, and so in the returned list, the k-th emitted
\* chunk has chunk_id k - 1 (ids 0..N-1 in emission order, no gap, no repeat) and
\* the next id to give out is the number of chunks emitted.
ChunkIdsSequential ==
    /\ \A k \in 1..Len(chunks) : chunks[k].chunk_id = k - 1
    /\ pc # "call" => chunk_id = Len(chunks)

\* a returned list with table and text chunks, two pieces of one text block and
\* chunks of two sections
ChunkIdsWitness ==
    /\ Done
    /\ \E i, j, k \in 1..Len(chunks) :
          /\ chunks[i].chunk_type = "table"
          /\ chunks[j].chunk_type = "text"
          /\ chunks[k].section # chunks[j].section
    /\ Len(text_chunks) >= 2

\* C2: the table chunks of the returned list are, one for one and in order, the
\* table blocks of the document's sections, each with the block's content
\* unchanged, whatever chunk_size is.
TableBlocksVerbatim == Done => TableChunkTexts = TableBlockContents

\* a returned table chunk longer than the chunk_size passed
TableBlocksWitness ==
    /\ Done
    /\ arg_size # <<>>
    /\ \E i \in 1..Len(chunks) :
          chunks[i].chunk_type = "table" /\ Len(chunks[i].text) > chunk_size

Chars(s) == {s[i] : i \in 1..Len(s)}

\* region of offset p under the accepted headings hs: the number of headings at or
\* before p (0 is the text before the first heading)
RegionOf(hs, p) == Cardinality({i \in 1..Len(hs) : hs[i].pos <= p})

\* the regions of the document in which the character x occurs
RegionsOf(hs, x) ==
    {RegionOf(hs, q - 1) : q \in {q \in 1..Len(full_text) : full_text[q] = x}}

\* the characters of s that mark a section: they occur in one region only
Marks(hs, s) ==
    {x \in Chars(s) \ Whitespace : Cardinality(RegionsOf(hs, x)) = 1}

\* C3: no returned chunk holds markers of two sections: two characters of one
\* chunk that each occur in a single section's stretch of the document (from an
\* accepted heading to the next) occur in the same one.
NoCrossSectionChunk ==
    Done =>
        LET hs == FindSections(full_text)
        IN  \A k \in 1..Len(chunks) :
                \A x, y \in Marks(hs, chunks[k].text) : RegionsOf(hs, x) = RegionsOf(hs, y)

\* a returned list with chunks that carry markers of two different headed sections
NoCrossSectionWitness ==
    /\ Done
    /\ LET hs == FindSections(full_text)
       IN  \E i, j \in 1..Len(chunks) :
               \E x \in Marks(hs, chunks[i].text), y \in Marks(hs, chunks[j].text) :
                   /\ RegionsOf(hs, x) # RegionsOf(hs, y)
                   /\ 0 \notin RegionsOf(hs, x) \cup RegionsOf(hs, y)

\* C4: in the returned list the page of a chunk is never smaller than the page
\* of the chunk before it.
PageMonotone ==
    Done => \A k \in 1..(Len(chunks) - 1) : chunks[k].page <= chunks[k + 1].page

\* the page numbers of the pages whose span of the document holds the character x
PagesOf(x) ==
    {page_boundaries[i].page_num : i \in
        {i \in 1..Len(page_boundaries) :
            \E q \in (page_boundaries[i].start + 1)..page_boundaries[i].end :
                full_text[q] = x}}

\* C5: a returned chunk's page is the page that holds its first character; checked
\* on the chunks whose first character occurs on one page only.
ChunkPageIsStartPage ==
    Done =>
        \A k \in 1..Len(chunks) :
            Cardinality(PagesOf(chunks[k].text[1])) = 1
                => chunks[k].page \in PagesOf(chunks[k].text[1])

\* C6: a returned chunk that holds a marker of a section carries that section's
\* heading title, and the empty title when the marker lies before the first
\* accepted heading or no heading is accepted.
SectionFieldIsHeading ==
    Done =>
        LET hs == FindSections(full_text)
        IN  \A k \in 1..Len(chunks) :
                \A x \in Marks(hs, chunks[k].text) :
                    \A r \in RegionsOf(hs, x) :
                        chunks[k].section = IF r = 0 THEN <<>> ELSE hs[r].title

\* two pages that each open with a heading, and chunks tagged with the first and
\* with the second heading
SectionFieldWitness ==
    /\ Done
    /\ Len(pages) = 2
    /\ LET hs == FindSections(full_text)
       IN  /\ Len(hs) = 2
           /\ hs[1].pos = 0
           /\ hs[2].pos = page_boundaries[2].start
           /\ \E i, j \in 1..Len(chunks) :
                  /\ chunks[i].section = hs[1].title
                  /\ chunks[j].section = hs[2].title
                  /\ hs[1].title # hs[2].title

\* C7: every chunk has text that is not empty after trimming, at every point of the
\* pass and so in the returned list.
ChunkTextNonEmpty == \A k \in 1..Len(chunks) : Strip(chunks[k].text) # <<>>

\* a returned list whose last text block had a window slice of whitespace only
ChunkTextWitness ==
    /\ Done
    /\ chunks # <<>>
    /\ \E i \in 1..Len(text_chunks) : text_chunks[i] = <<>>

\* the trimmed line starts with "|"
StartsWithBar(line) == Strip(line) # <<>> /\ Strip(line)[1] = BAR

\* the characters of the document that occur on table lines only
TableOnlyChars ==
    LET lines == SplitLines(full_text)
        on(x, table) == \E i \in 1..Len(lines) :
                            x \in Chars(lines[i]) /\ StartsWithBar(lines[i]) = table
    IN  {x \in Chars(full_text) \ Whitespace : on(x, TRUE) /\ ~on(x, FALSE)}

\* C8: a returned table chunk is made of table lines only, and a returned text chunk
\* holds no character that the document has on table lines only.
NoMixedChunk ==
    Done =>
        \A k \in 1..Len(chunks) :
            IF chunks[k].chunk_type = "table"
            THEN \A i \in 1..Len(SplitLines(chunks[k].text)) :
                     StartsWithBar(SplitLines(chunks[k].text)[i])
            ELSE Chars(chunks[k].text) \cap TableOnlyChars = {}

\* a returned list with a text chunk next to a table chunk of the same section
NoMixedWitness ==
    /\ Done
    /\ \E k \in 1..(Len(chunks) - 1) :
          /\ chunks[k].chunk_type = "text"
          /\ chunks[k + 1].chunk_type = "table"
          /\ chunks[k].section = chunks[k + 1].section

\* C9: the pieces the Text Chunker returns and the text chunks emitted are no longer
\* than the chunk size in force.
TextWithinBudget ==
    /\ pc = "emit" => \A i \in 1..Len(text_chunks) : Len(text_chunks[i]) <= chunk_size
    /\ \A k \in 1..Len(chunks) :
          chunks[k].chunk_type = "text" => Len(chunks[k].text) <= chunk_size

\* a returned list whose last text block was split, with a piece that fills the budget
TextBudgetWitness ==
    /\ Done
    /\ arg_size # <<>>
    /\ Len(text_chunks) >= 2
    /\ \E k \in 1..Len(chunks) :
          chunks[k].chunk_type = "text" /\ Len(chunks[k].text) = chunk_size

AllPagesBlank == \A i \in 1..Len(pages) : Strip(pages[i].text) = <<>>

\* C10: for no pages, or pages of whitespace only, the pass never enters the text
\* chunker and returns the empty list.
BlankInputGivesNoChunks ==
    AllPagesBlank => /\ pc \in {"call", "section", "block", "done"}
                     /\ chunks = <<>>

\* the call has returned for two pages of whitespace, one of them with a space
BlankInputWitness ==
    /\ Done
    /\ Len(pages) = 2
    /\ AllPagesBlank
    /\ \E i \in 1..2 : SP \in Chars(pages[i].text)

\* a is a part of b and is not b
StrictSubstring(a, b) == a # b /\ Contains(b, a)

NoNesting(texts) ==
    \A i, j \in 1..Len(texts) : ~StrictSubstring(texts[i], texts[j])

\* C16 as stated: in a returned list no table chunk's text is a strict substring of
\* another table chunk's text.
NoTableSubstring == Done => NoNesting(TableChunkTexts)

\* C16 amended: when no table block of the document is a strict substring of another
\* table block, no returned table chunk's text is a strict substring of another
\* table chunk's text.
NoTableSubstringOfOwnCut ==
    (Done /\ NoNesting(TableBlockContents)) => NoNesting(TableChunkTexts)

\* a returned list with two table chunks for a document whose table blocks are not
\* parts of one another
NoTableSubstringWitness ==
    /\ Done
    /\ arg_size # <<>>
    /\ NoNesting(TableBlockContents)
    /\ Len(TableChunkTexts) >= 2

\* C18: in the list the Block Separator returned for the section at hand, two
\* neighbouring blocks never have the same type.
BlocksAlternate ==
    pc = "block" => \A i \in 1..(Len(blocks) - 1) : blocks[i].type # blocks[i + 1].type

\* C19: every piece the Text Chunker returned has trimmed length above 0.
PiecesNonEmpty ==
    pc = "emit" => \A i \in 1..Len(text_chunks) : Strip(text_chunks[i]) # <<>>

\* the characters of s that are not whitespace, in order
Ink(s) == SelectSeq(s, LAMBDA c : c \notin Whitespace)

\* the ink of the pages, in page order
PageInk == Ink(Flatten([i \in 1..Len(pages) |-> pages[i].text]))

\* the texts cs lie on the ink one after the other from left to right: each starts
\* at or after the start of the one before (from), leaves no gap after the ink
\* covered so far (upto), and the last one ends where the ink ends
RECURSIVE Covers(_, _, _, _)
Covers(ink, cs, from, upto) ==
    IF cs = <<>> THEN upto = Len(ink)
    ELSE LET c == Ink(Head(cs))
         IN  \E start \in from..(upto + 1) :
                 /\ start + Len(c) - 1 >= upto
                 /\ start + Len(c) - 1 <= Len(ink)
                 /\ SubSeq(ink, start, start + Len(c) - 1) = c
                 /\ Covers(ink, Tail(cs), start, start + Len(c) - 1)

\* C20: nothing of the pages is dropped or cut off: the chunks of a returned list,
\* taken in order, cover every non-whitespace character of the pages from left to
\* right without a gap; so do the windows of an oversized paragraph and a table
\* longer than the budget.
NoContentDropped ==
    Done => Covers(PageInk, [k \in 1..Len(chunks) |-> chunks[k].text], 1, 0)

\* a returned list for 0 <= overlap < budget with a table chunk longer than the budget
\* and a last text block that was cut into windows
NoContentDroppedWitness ==
    /\ Done
    /\ arg_size # <<>> /\ arg_overlap # <<>>
    /\ 0 <= chunk_overlap /\ chunk_overlap < chunk_size
    /\ Len(text_chunks) >= 3
    /\ \E k \in 1..Len(chunks) :
          chunks[k].chunk_type = "table" /\ Len(chunks[k].text) > chunk_size

\* the arguments the termination claim covers: a passed chunk_size is at least 1
\* and a passed chunk_overlap at least 0
SizeAndOverlapInRange ==
    /\ arg_size # <<>> => arg_size[1] >= 1
    /\ arg_overlap # <<>> => arg_overlap[1] >= 0

\* C21: for every page list, every chunk_size >= 1 and every chunk_overlap >= 0 the
\* call of chunk_pages returns.
Terminates == <>(Done \/ ~SizeAndOverlapInRange)

\* C22: the pass works with the chunk_size and chunk_overlap that were passed, and
\* with the configured defaults only for an omitted argument; a passed chunk_overlap
\* of 0 is used as 0.
UsesPassedArguments ==
    pc \notin {"idle", "call"} =>
        /\ arg_size = <<>> => chunk_size = DEFAULT_CHUNK_SIZE
        /\ (arg_size # <<>> /\ arg_size[1] >= 1) => chunk_size = arg_size[1]
        /\ arg_overlap = <<>> => chunk_overlap = DEFAULT_CHUNK_OVERLAP
        /\ arg_overlap # <<>> => chunk_overlap = arg_overlap[1]

\* the call has built full_text and is at its first section
Entered == pc = "section" /\ si = 1

\* the matches of the three patterns whose cleaned title has an accepted length
Candidates(text) ==
    PatternHits(text, SECTION_PATTERNS[1]) \o PatternHits(text, SECTION_PATTERNS[2])
        \o PatternHits(text, SECTION_PATTERNS[3])

\* candidate c is one of the returned pairs
Accepted(found, c) == \E i \in 1..Len(found) : found[i] = c

\* C23: the pairs the Section Detector returns are candidates in strictly increasing
\* position order, any two positions at least 5 apart, every title of trimmed length
\* 2 to 50; a candidate is left out only when an accepted position lies less than 5
\* characters before it; without a candidate the list is empty.
DetectorKeepsDistinctHeadings ==
    Entered =>
        LET found == FindSections(full_text)
            cands == Candidates(full_text)
        IN  /\ \A i \in 1..(Len(found) - 1) : found[i + 1].pos - found[i].pos >= NEAR
            /\ \A i \in 1..Len(found) :
                   /\ TITLE_MIN <= Len(Strip(found[i].title))
                   /\ Len(Strip(found[i].title)) <= TITLE_MAX
                   /\ \E k \in 1..Len(cands) : cands[k] = found[i]
            /\ \A k \in 1..Len(cands) :
                   \/ Accepted(found, cands[k])
                   \/ \E i \in 1..Len(found) :
                          /\ found[i].pos <= cands[k].pos
                          /\ cands[k].pos - found[i].pos < NEAR
            /\ cands = <<>> => found = <<>>

\* a document with a heading candidate that was left out as too near an accepted one
DetectorWitness ==
    /\ Entered
    /\ \E k \in 1..Len(Candidates(full_text)) :
           ~Accepted(FindSections(full_text), Candidates(full_text)[k])

\* the end of span i: the start of the next span, the end of the document for the last
SpanEnd(i) == IF i < Len(sections) THEN sections[i + 1].start ELSE Len(full_text)

\* the spans are in strictly increasing start order, so do not overlap, and every
\* non-whitespace character of the document lies in exactly one of them
SpansInOrder ==
    /\ \A i \in 1..(Len(sections) - 1) : sections[i].start < sections[i + 1].start
    /\ Flatten([i \in 1..Len(sections) |-> Ink(sections[i].text)]) = Ink(full_text)

\* span i holds the trimmed content of [start_i, start_{i+1}), which is not empty
SpansTrimmed ==
    \A i \in 1..Len(sections) :
        /\ sections[i].text = Strip(SubSeq(full_text, sections[i].start + 1, SpanEnd(i)))
        /\ Strip(sections[i].text) # <<>>

\* an untitled span precedes the spans of the headings exactly when the first heading
\* is not at offset 0 and the text before it is not blank
PreambleWhenText ==
    LET found == FindSections(full_text)
        preamble == /\ Len(sections) = Len(found) + 1
                    /\ sections[1].title = <<>> /\ sections[1].start = 0
    IN  found # <<>> =>
            /\ preamble <=> (found[1].pos > 0
                               /\ Strip(SubSeq(full_text, 1, found[1].pos)) # <<>>)
            /\ ~preamble => Len(sections) = Len(found)

\* C24 as stated: the Section Splitter's spans partition the document, each span
\* holding the non-empty trimmed content between its start and the next start, with
\* a preamble span exactly when there is text before the first heading.
SplitterPartitions ==
    Entered => SpansInOrder /\ SpansTrimmed /\ PreambleWhenText

\* C24 amended: the spans partition the document; when a heading is detected each span
\* holds the non-empty trimmed content between its start and the next start, with a
\* preamble span exactly when there is text before the first heading; when no heading
\* is detected the one span is the whole text as it is.
SplitterPartitionsOrWhole ==
    Entered =>
        /\ SpansInOrder
        /\ FindSections(full_text) # <<>> => SpansTrimmed /\ PreambleWhenText
        /\ FindSections(full_text) = <<>> =>
               sections = <<[title |-> <<>>, text |-> full_text, start |-> 0]>>

\* a document split into a preamble and the span of a heading
SplitterWitness ==
    /\ Entered
    /\ Len(sections) = 2
    /\ sections[1].title = <<>> /\ sections[2].title # <<>>
    /\ sections[2].start > 0

(***************************************************************************)
(* Properties of classify_table                                            *)
(***************************************************************************)
Classified == cpc = "done"

\* the combined text of the call's arguments
InputText == CombinedText(table_data, context_text)

\* C12: the returned type follows the threshold rule on the two clamped scores:
\* financial_report exactly when the financial score is above both the fundraising
\* score and 0.3; otherwise fundraising exactly when the fundraising score is above
\* 0.3; otherwise other, with confidence 0, category unknown and an empty title.
TypeFollowsThresholdRule ==
    Classified =>
        LET fin_wins == financial.score > fundraising.score /\ financial.score > THRESHOLD
            fund_wins == ~fin_wins /\ fundraising.score > THRESHOLD
        IN  /\ result.type \in {"financial_report", "fundraising", "other"}
            /\ result.type = "financial_report" <=> fin_wins
            /\ result.type = "fundraising" <=> fund_wins
            /\ result.type = "other" =>
                  /\ result.confidence = 0
                  /\ result.category = "unknown"
                  /\ result.suggested_title = <<>>

\* a call has returned fundraising for two equal scores above 0.3
TieWitness ==
    /\ Classified
    /\ financial.score = fundraising.score
    /\ financial.score > THRESHOLD
    /\ result.type = "fundraising"

\* the bonus the scoring rules give for a category
BonusOf(category) ==
    CASE category \in {"balance_sheet", "income_statement", "cash_flow_statement",
                       "usage", "source"} -> BONUS_MAJOR
      [] category \in {"equity_statement", "issuance"} -> BONUS_MINOR
      [] OTHER -> 0

\* the sum a rule makes before it is clamped, for the returned category
FinancialSum ==
    KeywordMatches(FINANCIAL_KEYWORDS, InputText) * KEYWORD_WEIGHT_FINANCIAL
        + BonusOf(result.category) + (IF HasStructure(table_data) THEN BONUS_STRUCTURE ELSE 0)
FundraisingSum ==
    KeywordMatches(FUNDRAISING_KEYWORDS, InputText) * KEYWORD_WEIGHT_FUNDRAISING
        + BonusOf(result.category)

\* C13: the returned confidence lies in [0, 1] and is the winning rule's sum cut at 1:
\* 0.15 per financial keyword plus category and structure bonus for financial_report,
\* 0.2 per fundraising keyword plus category bonus for fundraising; it is above 0.3
\* unless the type is other, and then it is 0.
ConfidenceIsClampedScore ==
    Classified =>
        /\ 0 <= result.confidence /\ result.confidence <= SCORE_MAX
        /\ result.type = "financial_report" =>
              /\ result.confidence = MinOf({SCORE_MAX, FinancialSum})
              /\ result.confidence > THRESHOLD
        /\ result.type = "fundraising" =>
              /\ result.confidence = MinOf({SCORE_MAX, FundraisingSum})
              /\ result.confidence > THRESHOLD
        /\ result.type = "other" => result.confidence = 0

\* a call has returned confidence 1 for a financial sum above 1
ClampWitness ==
    /\ Classified
    /\ result.type = "financial_report"
    /\ FinancialSum > SCORE_MAX
    /\ result.confidence = SCORE_MAX

NoKeyword ==
    /\ KeywordMatches(FINANCIAL_KEYWORDS, InputText) = 0
    /\ KeywordMatches(FUNDRAISING_KEYWORDS, InputText) = 0

IsOther == result.type = "other" /\ result.confidence = 0

\* C14 as stated: a table whose combined text holds no keyword of the financial and
\* none of the fundraising vocabulary is classified other with confidence 0.
NoKeywordIsOther == (Classified /\ NoKeyword) => IsOther

\* C14 amended: a table whose combined text holds no keyword of either vocabulary and
\* not the total-assets marker of the balance sheet is classified other with
\* confidence 0, whatever the grid and the context.
NoKeywordNoMarkerIsOther ==
    (Classified /\ NoKeyword /\ ~Contains(InputText, TotalAssets)) => IsOther

\* a call has returned other for a grid with a structural column name and no keyword
NoKeywordWitness ==
    /\ Classified
    /\ NoKeyword
    /\ ~Contains(InputText, TotalAssets)
    /\ HasStructure(table_data)
    /\ context_text # <<>>
    /\ IsOther

HasBalanceMarker == Contains(InputText, BalanceSheet) \/ Contains(InputText, TotalAssets)
HasIncomeMarker ==
    Contains(InputText, IncomeStatement) \/ Contains(InputText, Revenue)
        \/ Contains(InputText, NetProfit)
HasCashFlowMarker ==
    Contains(InputText, CashFlowStatement) \/ Contains(InputText, CashEquivalents)
HasEquityMarker == Contains(InputText, OwnersEquity)
HasUsageMarker == Contains(InputText, RaisedFunds) /\ Contains(InputText, Usage)
HasSourceMarker ==
    Contains(InputText, RaisedFunds)
        /\ (Contains(InputText, Source) \/ Contains(InputText, Subscription))
HasIssuanceMarker == Contains(InputText, MatchingFinance) \/ Contains(InputText, ShareIssue)

\* the first category of order whose marker test holds
RECURSIVE FirstCategory(_)
FirstCategory(order) ==
    IF order = <<>> THEN "unknown"
    ELSE IF Head(order)[2] THEN Head(order)[1]
    ELSE FirstCategory(Tail(order))

\* C15: each rule's category is the first marker group found in its fixed order
\* (balance sheet, income, cash flow, equity; usage, source, issuance), so a
\* balance-sheet marker gives balance_sheet whatever else the text holds; and a
\* table with a balance-sheet marker, a structural column name and a lower
\* fundraising score is returned as financial_report / balance_sheet with
\* confidence 0.3 or more.
CategoryIsFirstMatch ==
    /\ cpc \in {"scored", "done"} =>
          /\ financial.category =
                 FirstCategory(<< <<"balance_sheet", HasBalanceMarker>>,
                                  <<"income_statement", HasIncomeMarker>>,
                                  <<"cash_flow_statement", HasCashFlowMarker>>,
                                  <<"equity_statement", HasEquityMarker>> >>)
          /\ fundraising.category =
                 FirstCategory(<< <<"usage", HasUsageMarker>>,
                                  <<"source", HasSourceMarker>>,
                                  <<"issuance", HasIssuanceMarker>> >>)
          /\ HasBalanceMarker => financial.category = "balance_sheet"
    /\ (Classified /\ HasBalanceMarker /\ HasStructure(table_data)
            /\ fundraising.score < financial.score) =>
          /\ result.type = "financial_report"
          /\ result.category = "balance_sheet"
          /\ result.confidence >= THRESHOLD

\* a call has returned balance_sheet for a text with the balance-sheet name, the
\* total-assets marker, an income-statement marker and a structural column name
CategoryOrderWitness ==
    /\ Classified
    /\ Contains(InputText, BalanceSheet) /\ Contains(InputText, TotalAssets)
    /\ HasIncomeMarker
    /\ HasStructure(table_data)
    /\ result.type = "financial_report"
    /\ result.category = "balance_sheet"

\* the grid cut down to its column names and its first rows
Truncated(df) == [columns |-> df.columns, rows |-> PySlice(df.rows, 0, ROWS_READ)]

\* classify_table as a function of its arguments
ClassifyTable(df, context) ==
    LET text == CombinedText(df, context)
    IN  Decide(text, IsFinancialReport(df, text), IsFundraisingTable(df, text))

Counted == stats.success + stats.failed + stats.skipped

\* one turn of the loop with resume on: the file is skipped exactly when its stored
\* record is success or partial, and given to process_single_pdf exactly when the
\* record is absent or failed; with resume on or off the turn counts the file once
TurnOk ==
    (ppc = "loop" /\ fi' = fi + 1) =>
        LET doc_id == pdf_files[fi]
            settled == facts[doc_id] \in {"success", "partial"}
            skipped == calls' = calls /\ stats'.skipped = stats.skipped + 1
            handled == calls' = Append(calls, doc_id) /\ stats'.skipped = stats.skipped
        IN  /\ resume => (skipped <=> settled)
            /\ resume => (handled <=> ~settled)
            /\ skipped \/ handled
            /\ Counted' = Counted + 1
            /\ stats'.success >= stats.success
            /\ stats'.failed >= stats.failed
            /\ stats'.total = stats.total

\* the files taken so far are counted once each, and all of them at the return
CountOk ==
    /\ ppc = "loop" => Counted = fi - 1
    /\ ppc \in {"loop", "done"} => stats.total = Cardinality(input_path.files)
    /\ ppc = "done" => Counted = stats.total

\* C17: with resume on, run_pipeline skips a file exactly when its stored record is
\* success or partial and processes it when the record is absent or failed; every
\* input file is counted in exactly one of success, failed, skipped.
ResumeSkipsSettled == [][TurnOk]_vars /\ []CountOk

\* a run with resume on has returned with a file skipped, one processed with success
\* and one processed without
ResumeWitness ==
    /\ ppc = "done"
    /\ resume
    /\ stats.skipped >= 1 /\ stats.success >= 1 /\ stats.failed >= 1
    /\ Len(calls) = 2

\* C27: after a run over documents an earlier run has indexed (resume on or off,
\* earlier status failed or an exception after indexing included) the saved vector
\* index holds at most one chunk for each (doc_id, chunk_id) pair: the chunks of a
\* document that is processed again replace its earlier chunks.
IndexHoldsOneCopy ==
    ppc = "done" => \A e \in BagToSet(index) : CopiesIn(e, index) <= 1

(***************************************************************************)
(* Properties of _get_page_for_position                                    *)
(***************************************************************************)
\* the triples are laid out as chunk_pages lays them out: the first starts at 0, each
\* ends where the next starts, and each is as long as a page text plus 2
AsBuilt(bs) ==
    /\ bs # <<>> => bs[1].start = 0
    /\ \A i \in 1..Len(bs) : bs[i].end - bs[i].start >= 2
    /\ \A i \in 1..(Len(bs) - 1) : bs[i].end = bs[i + 1].start

\* C25: the Page Locator returns the page number of the first triple whose end is
\* greater than the position, the last triple's page number when there is none, and 1
\* for an empty list; for triples laid out by chunk_pages and a position inside them
\* that is the page p with start_p <= position < end_p.
LocatorFindsFirstEndBeyond ==
    lpc = "done" =>
        LET n == Len(boundaries)
            beyond(i) == position < boundaries[i].end
        IN  /\ \A i \in 1..n :
                   (beyond(i) /\ \A j \in 1..(i - 1) : ~beyond(j))
                       => located = boundaries[i].page_num
            /\ (n > 0 /\ \A i \in 1..n : ~beyond(i)) => located = boundaries[n].page_num
            /\ n = 0 => located = 1
            /\ (AsBuilt(boundaries) /\ n > 0 /\ 0 <= position
                    /\ position < boundaries[n].end)
                   => \E p \in 1..n : /\ boundaries[p].start <= position
                                       /\ position < boundaries[p].end
                                       /\ located = boundaries[p].page_num
                                       /\ \A q \in 1..n :
                                              (boundaries[q].start <= position
                                                 /\ position < boundaries[q].end) => q = p

\* the position is the end of the first of two triples laid out by chunk_pages: the
\* page returned is the second one's
LocatorWitness ==
    /\ lpc = "done"
    /\ Len(boundaries) = 2 /\ AsBuilt(boundaries)
    /\ position = boundaries[1].end
    /\ boundaries[1].page_num # boundaries[2].page_num
    /\ located = boundaries[2].page_num

(***************************************************************************)
(* Properties of extract_title_from_context                                *)
(***************************************************************************)
\* the chunks on the table's page or the page before it, in list order
NearChunks ==
    SelectSeq(context_chunks, LAMBDA c : c.page = table_page \/ c.page = table_page - 1)

\* their lines one chunk after the other, trimmed
NearLines ==
    LET of(c) == SplitLines(c.text)
        lines == Flatten([i \in 1..Len(NearChunks) |-> of(NearChunks[i])])
    IN  [i \in 1..Len(lines) |-> Strip(lines[i])]

\* a trimmed line that can be a title
TitleLike(l) ==
    /\ Len(l) >= TITLE_LINE_MIN /\ Len(l) <= TITLE_LINE_MAX
    /\ \/ \E i \in 1..Len(FINANCIAL_KEYWORDS) : Contains(l, FINANCIAL_KEYWORDS[i])
       \/ \E j \in 1..Len(FUNDRAISING_KEYWORDS) : Contains(l, FUNDRAISING_KEYWORDS[j])
    /\ \E i \in 1..Len(l) : l[i] \notin NumberChars

FieldFailed(f) ==
    \/ ~retrieved[f]
    \/ answers[f] = <<>>
    \/ ~Validates(f, answers[f][1])

FailedFields == {f \in Fields : FieldFailed(f)}

\* C28: the record status is FAILED when the extraction of every field failed (no
\* chunk retrieved, LLM call failure or schema validation failure), PARTIAL when at
\* least one but not every field failed, and SUCCESS when no field failed.
StatusCountsFailedFields ==
    epc = "done" =>
        record.status = IF FailedFields = Fields THEN "failed"
                        ELSE IF FailedFields # {} THEN "partial"
                        ELSE "success"

(***************************************************************************)
(* Properties of process_document_tables                                   *)
(***************************************************************************)
Merged == mpc = "done" /\ ~dry_run /\ tables # <<>>

MergedEntries == {k \in 1..Len(final_tables) : IsMerged(final_tables[k])}

\* the final entry e holds the table at position i of the document
Holds(e, i) ==
    IF IsMerged(e) THEN \E k \in 1..Len(e.merged_from) : e.merged_from[k] = i
    ELSE e = tables[i]

\* every merged group is a run of consecutive tables
GroupsAreRuns ==
    \A k \in MergedEntries :
        LET from == final_tables[k].merged_from
        IN  /\ Len(from) >= 2
            /\ \A n \in 1..(Len(from) - 1) : from[n + 1] = from[n] + 1

\* each original table is in the final list exactly once
EachTableOnce ==
    \A i \in 1..Len(tables) :
        Cardinality({k \in 1..Len(final_tables) : Holds(final_tables[k], i)}) = 1

\* the merge type by which the table at position i joined the one before it
JoinType(i) == ShouldMergeTables(tables[i - 1], tables[i]).type

\* the rows the table at position i brings to its group: all of them for the first
\* table and a data continuation, all but the first for a repeated header
RowsBrought(from, n) ==
    LET data == tables[from[n]].data
    IN  IF n > 1 /\ JoinType(from[n]) = "header_repeat" THEN Tail(data) ELSE data

RowsByJoinType ==
    \A k \in MergedEntries :
        LET from == final_tables[k].merged_from
        IN  final_tables[k].data = Flatten([n \in 1..Len(from) |-> RowsBrought(from, n)])

\* C29: every merged group is a run of consecutive tables, each original table is in
\* the final list exactly once (unmerged or inside exactly one merged table), and in
\* a merged group a table joined as data_continuation keeps all of its rows while a
\* table joined as header_repeat loses exactly its first row, also in groups whose
\* successive pairs were joined by different merge types.
MergeKeepsTablesAndRows ==
    Merged => GroupsAreRuns /\ EachTableOnce /\ RowsByJoinType

====
